---- MODULE Spec2Model ----
(***************************************************************************)
(* Conversational sales ledger (gabrr/whatsapp-bot).                       *)
(*                                                                         *)
(* Two specifications over one state:                                      *)
(*   Spec        the dialogue machine: Agent.processMessage turns of a     *)
(*               partition, each turn one step (the plugin, the customer   *)
(*               resolver and the ledger calls it makes included), with    *)
(*               the clock and a process restart as environment steps;     *)
(*   SpecLedger  SalesService.createSale / deleteSale calls running        *)
(*               concurrently, interleaved at the awaits of the            *)
(*               number-allocating transaction.                            *)
(*                                                                         *)
(* Values.  A string the code only copies (product, salesperson) is a TLA+ *)
(* string, "" when undefined.  A customer name is a tuple of characters,   *)
(* << >> when undefined, because normalizeString and stringSimilarity work *)
(* on its characters.  A number is an integer, NoNum when undefined/null.  *)
(* A date is a record [k, t]: k = "Date" for a Date object at minute t,    *)
(* k = "Str" for the ISO string JSON.stringify turns it into, k = "none"   *)
(* when undefined.  Time is counted in minutes.                            *)
(***************************************************************************)
EXTENDS Integers, Sequences, FiniteSets, TLC

\* ------------------------------------------------------------------ bounds
\* the clock stops here
MaxTime == 20
\* sales the dialogue of Spec may create
MaxSales == 1
\* store operations that may throw in one run of the dialogue
MaxFaults == 1
\* ledger calls of SpecLedger
MaxCalls == 3

\* --------------------------------------------------------- program constants
\* minutes a staged creation, update and deletion stay confirmable
CreateExpiryMin == 15
UpdateExpiryMin == 15
DeleteExpiryMin == 5
\* one tick of the clock passes the short expiry, two pass the long one
TickStep == 2 * DeleteExpiryMin
\* findSimilarCustomers returns this many candidates at most
MaxSimilar == 3
\* the shortest customer name the schemas accept
MinNameLen == 2

NoNum  == -1
NoStr  == ""
NoName == << >>
NoDate == [k |-> "none", t |-> 0]

DateAt(t) == [k |-> "Date", t |-> t]

Partitions == {"5511900000001", "5511900000002"}
\* the partition whose dialogue Spec explores
DialoguePartitions == {"5511900000001"}

\* ------------------------------------------------------------------ strings
N_BarLua == <<"B", "a", "r", " ", "L", "u", "a">>
N_BarLuz == <<"B", "a", "r", " ", "L", "u", "z">>

IsSpace(c) == c \in {" ", "\t"}

\* String.prototype.toLowerCase on the characters the model uses
LowerChar(c) ==
  CASE c = "A" -> "a"
    [] c = "B" -> "b"
    [] c = "L" -> "l"
    [] c = "Á" -> "á"
    [] OTHER -> c

\* normalize("NFD") followed by the removal of the combining marks
StripAccent(c) ==
  CASE c = "á" -> "a"
    [] c = "ã" -> "a"
    [] c = "ú" -> "u"
    [] OTHER -> c

\* String.prototype.toLowerCase
toLowerCase(s) == [i \in 1..Len(s) |-> LowerChar(s[i])]

\* normalize("NFD") and the removal of the combining marks
StripAccents(s) == [i \in 1..Len(s) |-> StripAccent(s[i])]

RECURSIVE TrimLeft(_)
TrimLeft(s) ==
  IF s # << >> /\ IsSpace(Head(s)) THEN TrimLeft(Tail(s)) ELSE s

RECURSIVE TrimRight(_)
TrimRight(s) ==
  IF s # << >> /\ IsSpace(s[Len(s)]) THEN TrimRight(SubSeq(s, 1, Len(s) - 1)) ELSE s

Trim(s) == TrimRight(TrimLeft(s))

\* replace(/\s+/g, " ")
RECURSIVE CollapseSpaces(_)
CollapseSpaces(s) ==
  IF s = << >> THEN << >>
  ELSE IF IsSpace(Head(s))
       THEN <<" ">> \o CollapseSpaces(TrimLeft(Tail(s)))
       ELSE <<Head(s)>> \o CollapseSpaces(Tail(s))

\* a trim that takes one space off the front
normalizeString_TrimOne(str) ==
  CollapseSpaces(IF str # << >> /\ IsSpace(Head(str))
                 THEN Tail(StripAccents(toLowerCase(str)))
                 ELSE StripAccents(toLowerCase(str)))

normalizeString(str) ==
  CollapseSpaces(Trim(StripAccents(toLowerCase(str))))

Min2(a, b) == IF a <= b THEN a ELSE b
Max2(a, b) == IF a >= b THEN a ELSE b

\* the matrix of stringSimilarity, filled row by row as the loops fill it:
\* row holds matrix[i][0..j-1], prev is matrix[i-1]; a row is the sequence of
\* its cells, cell j at index j + 1.  Each cell and each row is bound as a
\* value (next, prev) before the loop goes on, as an assignment to the matrix is.
RECURSIVE FillRow(_, _, _, _, _, _)
FillRow(prev, row, s1, s2, i, j) ==
  IF j > Len(s1) THEN row
  ELSE CHOOSE filled \in
         {FillRow(prev, next, s1, s2, i, j + 1) :
            next \in {Append(row,
                             IF s2[i] = s1[j] THEN prev[j]
                             ELSE Min2(prev[j] + 1,
                                       Min2(row[j] + 1, prev[j + 1] + 1)))}} : TRUE

RECURSIVE MatrixRow(_, _, _)
MatrixRow(s1, s2, i) ==
  IF i = 0 THEN [j \in 1..(Len(s1) + 1) |-> j - 1]
  ELSE CHOOSE filled \in
         {FillRow(prev, <<i>>, s1, s2, i, 1) :
            prev \in {MatrixRow(s1, s2, i - 1)}} : TRUE

\* matrix[i][j]
Levenshtein(s1, s2, i, j) == MatrixRow(s1, s2, i)[j + 1]

\* a similarity that divides by the shorter length
SimilarityOfNormalized_ByMinLen(s1, s2) ==
  IF s1 = s2 THEN [num |-> 1, den |-> 1]
  ELSE IF Len(s1) = 0 \/ Len(s2) = 0 THEN [num |-> 0, den |-> 1]
  ELSE [num |-> Min2(Len(s1), Len(s2)) - Levenshtein(s1, s2, Len(s2), Len(s1)),
        den |-> Min2(Len(s1), Len(s2))]

\* stringSimilarity on the normalized forms, as the fraction num/den (den > 0)
SimilarityOfNormalized(s1, s2) ==
  IF s1 = s2 THEN [num |-> 1, den |-> 1]
  ELSE IF Len(s1) = 0 \/ Len(s2) = 0 THEN [num |-> 0, den |-> 1]
  ELSE [num |-> Max2(Len(s1), Len(s2)) - Levenshtein(s1, s2, Len(s2), Len(s1)),
        den |-> Max2(Len(s1), Len(s2))]

stringSimilarity(str1, str2) ==
  SimilarityOfNormalized(normalizeString(str1), normalizeString(str2))

\* similarity > 0.8
AboveThreshold(sim) == 10 * sim.num > 8 * sim.den

\* a.similarity > b.similarity
SimGreater(a, b) == a.num * b.den > b.num * a.den

\* String.prototype.includes
Contains(s, sub) ==
  \E i \in 0..(Len(s) - Len(sub)) : SubSeq(s, i + 1, i + Len(sub)) = sub

businessKeywords ==
  { <<"m","e","r","c","a","d","o">>,
    <<"p","a","d","a","r","i","a">>,
    <<"r","e","s","t","a","u","r","a","n","t","e">>,
    <<"l","o","j","a">>,
    <<"b","a","r">>,
    <<"p","o","s","t","o">>,
    <<"f","a","r","m","a","c","i","a">> }

detectCustomerType(name) ==
  LET nameLower == toLowerCase(name)
  IN IF \E keyword \in businessKeywords : Contains(nameLower, keyword)
     THEN "BUSINESS" ELSE "PERSON"

\* -------------------------------------------------------------- data shapes
\* Intent.entities and PendingAction.data: every field, undefined ones empty
EmptyEntities ==
  [product |-> NoStr, quantity |-> NoNum, pricePerUnit |-> NoNum,
   totalPrice |-> NoNum, saleDate |-> NoDate, salesperson |-> NoStr,
   customerName |-> NoName, customerType |-> NoStr, saleNumber |-> NoNum,
   notes |-> NoStr]

\* JavaScript truthiness of a number or undefined
Truthy(n) == n # NoNum /\ n # 0

NoAction == [type |-> "none", data |-> EmptyEntities]

\* config.salespeople[phoneNumber] || "Desconhecido"
getSalespersonName(phoneNumber) ==
  IF phoneNumber = "5511900000001" THEN "Miriam" ELSE "Desconhecido"

StartOfDay(t) == (t \div 1440) * 1440

\* parsePortugueseDate("hoje").date
parsePortugueseDate(t) == DateAt(StartOfDay(t))

\* IntentExtractor.processIntent on the entities the oracle returned: the raw
\* sale date is "hoje" (k = "Str") or undefined; one price is derived from the
\* other when the quantity is known.  The oracle's numbers are chosen so that
\* the division is exact.
processIntent(parsed, t) ==
  LET e0 == [parsed EXCEPT !.saleDate = NoDate]
      e1 == IF Truthy(e0.totalPrice) /\ Truthy(e0.quantity) /\ ~Truthy(e0.pricePerUnit)
            THEN [e0 EXCEPT !.pricePerUnit = e0.totalPrice \div e0.quantity]
            ELSE IF Truthy(e0.pricePerUnit) /\ Truthy(e0.quantity) /\ ~Truthy(e0.totalPrice)
            THEN [e0 EXCEPT !.totalPrice = e0.pricePerUnit * e0.quantity]
            ELSE e0
  IN IF parsed.saleDate.k # "none"
     THEN [e1 EXCEPT !.saleDate = parsePortugueseDate(t)]
     ELSE e1

\* JSON.stringify then JSON.parse of a pending action: undefined fields stay
\* undefined, a Date comes back as its ISO string
JsonRoundTrip(pa) ==
  IF pa.data.saleDate.k = "Date"
  THEN [pa EXCEPT !.data.saleDate = [k |-> "Str", t |-> pa.data.saleDate.t]]
  ELSE pa

\* ---------------------------------------------------------- CustomerService
PartitionCustomers(custs, phoneNumber) ==
  {c \in custs : c.phoneNumber = phoneNumber}

SimEqual(a, b) == a.num * b.den = b.num * a.den

\* a sort that puts the least similar candidate first
SimilarFirst_Least(cands, name) ==
  CHOOSE a \in cands :
    \A b \in cands \ {a} :
      \/ SimGreater(stringSimilarity(name, b.name), stringSimilarity(name, a.name))
      \/ /\ SimEqual(stringSimilarity(name, a.name), stringSimilarity(name, b.name))
         /\ a.id < b.id

\* the candidate sort((a, b) => b.similarity - a.similarity) puts first: the
\* most similar one, the earliest row among equals (the sort is stable)
SimilarFirst(cands, name) ==
  CHOOSE a \in cands :
    \A b \in cands \ {a} :
      \/ SimGreater(stringSimilarity(name, a.name), stringSimilarity(name, b.name))
      \/ /\ SimEqual(stringSimilarity(name, a.name), stringSimilarity(name, b.name))
         /\ a.id < b.id

RECURSIVE SortBySimilarity(_, _)
SortBySimilarity(cands, name) ==
  IF cands = {} THEN << >>
  ELSE <<SimilarFirst(cands, name)>>
         \o SortBySimilarity(cands \ {SimilarFirst(cands, name)}, name)

\* slice(0, 3)
Slice(list) == SubSeq(list, 1, Min2(MaxSimilar, Len(list)))

\* filter, sort and slice: the candidates above the threshold, most similar
\* first, the top MaxSimilar of them
RankedSimilar(custs, phoneNumber, name) ==
  Slice(SortBySimilarity({c \in PartitionCustomers(custs, phoneNumber) :
                            AboveThreshold(stringSimilarity(name, c.name))},
                         name))

\* the rows of the list
TopSimilar(ranked) == {ranked[i] : i \in 1..Len(ranked)}

\* the exact match decides; the fuzzy scan runs only without one.  ranked is
\* the list as returned, similar its rows
ExactOrSimilar(exact, ranked) ==
  IF exact # {}
  THEN [exact |-> exact, similar |-> {}, ranked |-> << >>]
  ELSE [exact |-> {}, similar |-> TopSimilar(ranked), ranked |-> ranked]

findSimilarCustomers(custs, phoneNumber, name) ==
  ExactOrSimilar({c \in PartitionCustomers(custs, phoneNumber) :
                    c.nameNormalized = normalizeString(name)},
                 RankedSimilar(custs, phoneNumber, name))

CustomerRow(custs, phoneNumber, name, type) ==
  [id |-> Cardinality(custs) + 1, phoneNumber |-> phoneNumber, name |-> name,
   nameNormalized |-> normalizeString(name), type |-> type]

\* result: the customers afterwards, the resolved customer (a set of at most
\* one row), needsConfirmation and the candidates
NewCustomer(custs, row) ==
  [customers |-> custs \cup {row}, customer |-> {row},
   needsConfirmation |-> FALSE, similar |-> {}]

ResolveCustomer(found, custs, phoneNumber, name, type) ==
  IF found.exact # {}
  THEN [customers |-> custs, customer |-> found.exact,
        needsConfirmation |-> FALSE, similar |-> {}]
  ELSE IF found.similar # {}
  THEN [customers |-> custs, customer |-> {},
        needsConfirmation |-> TRUE, similar |-> found.similar]
  ELSE NewCustomer(custs, CustomerRow(custs, phoneNumber, name, type))

findOrCreateCustomer(custs, phoneNumber, name, type) ==
  ResolveCustomer(findSimilarCustomers(custs, phoneNumber, name),
                  custs, phoneNumber, name, type)

\* ------------------------------------------------------------- SalesService
\* a schema that accepts every draft
ValidSale_Lax(data, t) == TRUE

\* CreateSaleSchema.parse at minute t
ValidSale(data, t) ==
  /\ data.product # NoStr
  /\ data.quantity # NoNum /\ data.quantity > 0 /\ data.quantity <= 10000
  /\ data.pricePerUnit # NoNum /\ data.pricePerUnit >= 0
  /\ data.totalPrice # NoNum /\ data.totalPrice > 0
  /\ data.saleDate.k = "Date" /\ data.saleDate.t <= t
  /\ data.salesperson # NoStr
  /\ Len(data.customerName) >= MinNameLen
  /\ data.customerType \in {"PERSON", "BUSINESS"}

PartitionSales(rows, phoneNumber) ==
  {s \in rows : s.phoneNumber = phoneNumber}

\* a read of the last number that is not restricted to the partition
SaleNumbers_AllPartitions(rows, phoneNumber) ==
  {s.saleNumber : s \in rows}

SaleNumbers(rows, phoneNumber) ==
  {s.saleNumber : s \in PartitionSales(rows, phoneNumber)}

MaxOf(S) == CHOOSE m \in S : \A x \in S : x <= m

\* tx.sale.findFirst(orderBy saleNumber desc)?.saleNumber || 0
LastSaleNumber(rows, phoneNumber) ==
  IF SaleNumbers(rows, phoneNumber) = {} THEN 0
  ELSE MaxOf(SaleNumbers(rows, phoneNumber))

\* a numbering that leaves a gap
NextSaleNumber_Skip(lastSaleNumber) == lastSaleNumber + 2

NextSaleNumber(lastSaleNumber) == lastSaleNumber + 1

\* id is the generated primary key: a new one for every insert
\* an insert that leaves the notes out
SaleRow_NoNotes(id, phoneNumber, saleNumber, data, customerId) ==
  [id |-> id, phoneNumber |-> phoneNumber, saleNumber |-> saleNumber,
   product |-> data.product, quantity |-> data.quantity,
   pricePerUnit |-> data.pricePerUnit, totalPrice |-> data.totalPrice,
   saleDate |-> data.saleDate.t, salesperson |-> data.salesperson,
   customerId |-> customerId, notes |-> NoStr]

SaleRow(id, phoneNumber, saleNumber, data, customerId) ==
  [id |-> id, phoneNumber |-> phoneNumber, saleNumber |-> saleNumber,
   product |-> data.product, quantity |-> data.quantity,
   pricePerUnit |-> data.pricePerUnit, totalPrice |-> data.totalPrice,
   saleDate |-> data.saleDate.t, salesperson |-> data.salesperson,
   customerId |-> customerId, notes |-> data.notes]

\* a table without the unique index
UniqueSaleNumber_NoIndex(rows, phoneNumber, saleNumber) == TRUE

\* the unique index Sale_phoneNumber_saleNumber_key admits the row
UniqueSaleNumber(rows, phoneNumber, saleNumber) ==
  saleNumber \notin SaleNumbers(rows, phoneNumber)

getSaleByNumber(rows, phoneNumber, saleNumber) ==
  {s \in rows : s.phoneNumber = phoneNumber /\ s.saleNumber = saleNumber}

\* similar: the candidates the CUSTOMER_DISAMBIGUATION error carries in its
\* JSON message, empty for every other outcome
CreateSaleOutcome(custs, rows, given, n, customerName, err, similar) ==
  [customers |-> custs, sales |-> rows, issued |-> given, saleNumber |-> n,
   customerName |-> customerName, err |-> err, similar |-> similar]

\* the transaction of createSale: read the last number, insert the next one
AllocateAndInsert(custs, rows, given, phoneNumber, data, customer, n) ==
  CreateSaleOutcome(custs,
                    rows \cup {SaleRow(Len(given) + 1, phoneNumber, n, data, customer.id)},
                    Append(given, <<phoneNumber, n>>), n, customer.name, "", {})

\* createSale after the customer was resolved to res
CreateSaleResolved(res, custs, rows, given, phoneNumber, data, fail) ==
  IF res.needsConfirmation /\ res.customer = {}
  THEN CreateSaleOutcome(custs, rows, given, NoNum, NoName, "CUSTOMER_DISAMBIGUATION",
                         res.similar)
  ELSE IF fail = "tx"
  THEN CreateSaleOutcome(res.customers, rows, given, NoNum, NoName, "STORE", {})
  ELSE AllocateAndInsert(res.customers, rows, given, phoneNumber, data,
                         CHOOSE c \in res.customer : TRUE,
                         NextSaleNumber(LastSaleNumber(rows, phoneNumber)))

\* createSale run without interleaving, as one dialogue turn runs it.
\* fail = "ledger": the customer lookup throws; fail = "tx": the transaction
\* throws.  err names the exception, "" when the sale was stored.
createSale(custs, rows, given, phoneNumber, data, t, fail) ==
  IF ~ValidSale(data, t)
  THEN CreateSaleOutcome(custs, rows, given, NoNum, NoName, "VALIDATION", {})
  ELSE IF fail = "ledger"
  THEN CreateSaleOutcome(custs, rows, given, NoNum, NoName, "STORE", {})
  ELSE CreateSaleResolved(
         findOrCreateCustomer(custs, phoneNumber, data.customerName, data.customerType),
         custs, rows, given, phoneNumber, data, fail)

\* deleteSale: prisma.sale.delete throws when the row does not exist
deleteSale(rows, phoneNumber, saleNumber, fail) ==
  IF fail = "ledger" \/ getSaleByNumber(rows, phoneNumber, saleNumber) = {}
  THEN [sales |-> rows, err |-> "STORE"]
  ELSE [sales |-> {s \in rows : ~(s.phoneNumber = phoneNumber /\ s.saleNumber = saleNumber)},
        err |-> ""]

\* -------------------------------------------------------------------- state
VARIABLES
  now,        \* the clock, in minutes
  cache,      \* Agent.contextCache: phoneNumber -> ConversationContext
  db,         \* table ConversationState: phoneNumber -> persisted context
  customers,  \* table Customer
  sales,      \* table Sale
  issued,     \* the <<phoneNumber, saleNumber>> of every insert so far, in order
  last,       \* the turn processMessage has just finished, NoTurn otherwise
  faults,     \* how many store operations have thrown so far
  calls,      \* the ledger calls of SpecLedger
  standby     \* Agent.contextCache of a second instance, the one not serving

vars == <<now, cache, db, customers, sales, issued, last, faults, calls, standby>>

NewContext(phoneNumber) ==
  [userName |-> getSalespersonName(phoneNumber),
   pendingAction |-> NoAction, pendingConfirmation |-> FALSE,
   pendingExpiresAt |-> NoNum, lastSaleNumber |-> NoNum,
   lastCustomerName |-> NoName]

NoTurn ==
  [phoneNumber |-> NoStr, action |-> "none", routed |-> FALSE, expired |-> FALSE,
   pendingType |-> "none", pendingConfirmation |-> FALSE,
   entities |-> EmptyEntities, missingFields |-> {}, confidence |-> NoNum,
   fault |-> "none", reply |-> NoStr]

\* Agent.getContext: the cached object, else the persisted row, else a new one
getContext(phoneNumber) ==
  IF phoneNumber \in DOMAIN cache THEN cache[phoneNumber]
  ELSE IF phoneNumber \in DOMAIN db THEN db[phoneNumber]
  ELSE NewContext(phoneNumber)

\* the row saveContext upserts
PersistedRow(ctx) ==
  [ctx EXCEPT !.pendingAction =
     IF ctx.pendingAction.type = "none" THEN NoAction
     ELSE JsonRoundTrip(ctx.pendingAction)]

Put(f, k, v) == (k :> v) @@ f

\* a clearing that forgets the confirmation flag
ClearPending_KeepsFlag(ctx) ==
  [ctx EXCEPT !.pendingAction = NoAction, !.pendingExpiresAt = NoNum]

\* context.pendingAction = null; pendingConfirmation = false; pendingExpiresAt = null
ClearPending(ctx) ==
  [ctx EXCEPT !.pendingAction = NoAction, !.pendingConfirmation = FALSE,
              !.pendingExpiresAt = NoNum]

\* step 2 of processMessage
IsExpired(ctx, t) == ctx.pendingExpiresAt # NoNum /\ ctx.pendingExpiresAt < t

\* ------------------------------------------------------------- SalesPlugin
PluginResult(ctx, reply) ==
  [ctx |-> ctx, customers |-> customers, sales |-> sales, issued |-> issued,
   reply |-> reply]

MissingRequired(entities) ==
  (IF entities.product = NoStr THEN {"product"} ELSE {})
  \cup (IF entities.customerName = NoName THEN {"customerName"} ELSE {})
  \cup (IF ~Truthy(entities.totalPrice) /\ ~Truthy(entities.pricePerUnit)
        THEN {"preco"} ELSE {})

\* entities.salesperson defaults to the user of the session
WithSalesperson(entities, ctx) ==
  IF entities.salesperson = NoStr /\ ctx.userName # NoStr
  THEN [entities EXCEPT !.salesperson = ctx.userName]
  ELSE entities

StageCreate(entities, missingFields, ctx) ==
  IF MissingRequired(entities) # {} \/ missingFields # {}
  THEN PluginResult([ctx EXCEPT !.pendingAction = [type |-> "CREATE_SALE", data |-> entities],
                                !.pendingExpiresAt = now + CreateExpiryMin],
                    "ask_missing")
  ELSE PluginResult([ctx EXCEPT !.pendingAction = [type |-> "CREATE_SALE", data |-> entities],
                                !.pendingConfirmation = TRUE,
                                !.pendingExpiresAt = now + CreateExpiryMin],
                    "confirm_create")

handleCreate(intent, ctx) ==
  StageCreate(WithSalesperson(intent.entities, ctx), intent.missingFields, ctx)

\* the defaults confirmCreate writes into the pending draft
FillDefaults(data) ==
  [data EXCEPT
     !.saleDate = IF data.saleDate.k = "none" THEN DateAt(now) ELSE data.saleDate,
     !.quantity = IF ~Truthy(data.quantity) THEN 1 ELSE data.quantity,
     !.customerType = IF data.customerType = NoStr
                      THEN detectCustomerType(toLowerCase(data.customerName))
                      ELSE data.customerType]

\* a confirmation whose exception nothing catches: the turn ends without a reply
CreateConfirmed_Uncaught(r, data, ctx) ==
  IF r.err # ""
  THEN [ctx |-> [ctx EXCEPT !.pendingAction.data = data],
        customers |-> r.customers, sales |-> r.sales, issued |-> r.issued,
        reply |-> NoStr]
  ELSE [ctx |-> [ctx EXCEPT !.pendingAction = NoAction,
                            !.pendingConfirmation = FALSE,
                            !.pendingExpiresAt = NoNum,
                            !.lastSaleNumber = r.saleNumber,
                            !.lastCustomerName = r.customerName],
        customers |-> r.customers, sales |-> r.sales, issued |-> r.issued,
        reply |-> "sale_created"]

\* confirmCreate once createSale returned or threw r; data is the pending
\* draft, which the defaults were written into
\* a failed creation that drops the draft
CreateConfirmed_Dropped(r, data, ctx) ==
  IF r.err # ""
  THEN [ctx |-> ClearPending(ctx),
        customers |-> r.customers, sales |-> r.sales, issued |-> r.issued,
        reply |-> "confirm_error"]
  ELSE [ctx |-> [ctx EXCEPT !.pendingAction = NoAction,
                            !.pendingConfirmation = FALSE,
                            !.pendingExpiresAt = NoNum,
                            !.lastSaleNumber = r.saleNumber,
                            !.lastCustomerName = r.customerName],
        customers |-> r.customers, sales |-> r.sales, issued |-> r.issued,
        reply |-> "sale_created"]

CreateConfirmed(r, data, ctx) ==
  IF r.err # ""
  THEN [ctx |-> [ctx EXCEPT !.pendingAction.data = data],
        customers |-> r.customers, sales |-> r.sales, issued |-> r.issued,
        reply |-> "confirm_error"]
  ELSE [ctx |-> [ctx EXCEPT !.pendingAction = NoAction,
                            !.pendingConfirmation = FALSE,
                            !.pendingExpiresAt = NoNum,
                            !.lastSaleNumber = r.saleNumber,
                            !.lastCustomerName = r.customerName],
        customers |-> r.customers, sales |-> r.sales, issued |-> r.issued,
        reply |-> "sale_created"]

CreateWithDefaults(data, ctx, phoneNumber, fail) ==
  CreateConfirmed(createSale(customers, sales, issued, phoneNumber, data, now, fail),
                  data, ctx)

confirmCreate(ctx, phoneNumber, fail) ==
  CreateWithDefaults(FillDefaults(ctx.pendingAction.data), ctx, phoneNumber, fail)

DeleteConfirmed(r, ctx) ==
  IF r.err # ""
  THEN PluginResult(ctx, "confirm_error")
  ELSE [ctx |-> ClearPending(ctx), customers |-> customers, sales |-> r.sales,
        issued |-> issued, reply |-> "sale_deleted"]

confirmDelete(ctx, phoneNumber, fail) ==
  DeleteConfirmed(deleteSale(sales, phoneNumber, ctx.pendingAction.data.saleNumber, fail),
                  ctx)

handleConfirm(ctx, phoneNumber, fail) ==
  IF ctx.pendingAction.type = "none" \/ ~ctx.pendingConfirmation
  THEN PluginResult(ctx, "nothing_pending")
  ELSE CASE ctx.pendingAction.type = "CREATE_SALE" -> confirmCreate(ctx, phoneNumber, fail)
         [] ctx.pendingAction.type = "DELETE_SALE" -> confirmDelete(ctx, phoneNumber, fail)
         [] OTHER -> PluginResult(ctx, "unknown_action")

\* a resolution that prefers the remembered sale to the one the message names
TargetSaleNumber_LastFirst(intent, ctx) ==
  IF Truthy(ctx.lastSaleNumber) THEN ctx.lastSaleNumber
  ELSE intent.entities.saleNumber

\* intent.entities.saleNumber || context.lastSaleNumber
TargetSaleNumber(intent, ctx) ==
  IF Truthy(intent.entities.saleNumber) THEN intent.entities.saleNumber
  ELSE ctx.lastSaleNumber

UpdateTarget(saleNumber, intent, ctx, phoneNumber, fail) ==
  IF ~Truthy(saleNumber) THEN PluginResult(ctx, "which_sale")
  ELSE IF intent.entities.customerName = NoName
  THEN PluginResult(ctx, "what_to_update")
  ELSE IF fail = "ledger" THEN PluginResult(ctx, "plugin_error")
  ELSE IF getSaleByNumber(sales, phoneNumber, saleNumber) = {}
  THEN PluginResult(ctx, "sale_not_found")
  ELSE PluginResult(
         [ctx EXCEPT !.pendingAction =
                       [type |-> "UPDATE_SALE",
                        data |-> [EmptyEntities EXCEPT
                                    !.saleNumber = saleNumber,
                                    !.customerName = intent.entities.customerName]],
                     !.pendingConfirmation = TRUE,
                     !.pendingExpiresAt = now + UpdateExpiryMin],
         "confirm_update")

handleUpdate(intent, ctx, phoneNumber, fail) ==
  UpdateTarget(TargetSaleNumber(intent, ctx), intent, ctx, phoneNumber, fail)

\* a handleDelete that removes the sale without waiting for the confirmation
DeleteTarget_Immediate(saleNumber, ctx, phoneNumber, fail) ==
  IF ~Truthy(saleNumber) THEN PluginResult(ctx, "which_sale")
  ELSE IF getSaleByNumber(sales, phoneNumber, saleNumber) = {}
  THEN PluginResult(ctx, "sale_not_found")
  ELSE [ctx |-> ctx, customers |-> customers,
        sales |-> sales \ getSaleByNumber(sales, phoneNumber, saleNumber),
        issued |-> issued, reply |-> "sale_deleted"]

DeleteTarget(saleNumber, ctx, phoneNumber, fail) ==
  IF ~Truthy(saleNumber) THEN PluginResult(ctx, "which_sale")
  ELSE IF fail = "ledger" THEN PluginResult(ctx, "plugin_error")
  ELSE IF getSaleByNumber(sales, phoneNumber, saleNumber) = {}
  THEN PluginResult(ctx, "sale_not_found")
  ELSE PluginResult(
         [ctx EXCEPT !.pendingAction =
                       [type |-> "DELETE_SALE",
                        data |-> [EmptyEntities EXCEPT !.saleNumber = saleNumber]],
                     !.pendingConfirmation = TRUE,
                     !.pendingExpiresAt = now + DeleteExpiryMin],
         "confirm_delete")

handleDelete(intent, ctx, phoneNumber, fail) ==
  DeleteTarget(TargetSaleNumber(intent, ctx), ctx, phoneNumber, fail)

\* the default range of handleList: the trailing 30 days
handleList(intent, ctx, phoneNumber, fail) ==
  IF fail = "ledger" THEN PluginResult(ctx, "plugin_error")
  ELSE IF {s \in PartitionSales(sales, phoneNumber) :
             s.saleDate >= now - 30 * 1440 /\ s.saleDate <= now} = {}
  THEN PluginResult(ctx, "no_sales")
  ELSE PluginResult(ctx, "sales_list")

\* a lookup that remembers the customer it showed
handleViewCustomer_Remembers(intent, ctx, phoneNumber, fail) ==
  IF intent.entities.customerName = NoName THEN PluginResult(ctx, "which_customer")
  ELSE IF fail = "ledger" THEN PluginResult(ctx, "plugin_error")
  ELSE IF {c \in PartitionCustomers(customers, phoneNumber) :
             c.nameNormalized = normalizeString(intent.entities.customerName)} = {}
  THEN PluginResult(ctx, "customer_not_found")
  ELSE PluginResult([ctx EXCEPT !.lastCustomerName = intent.entities.customerName],
                    "customer_stats")

handleViewCustomer(intent, ctx, phoneNumber, fail) ==
  IF intent.entities.customerName = NoName THEN PluginResult(ctx, "which_customer")
  ELSE IF fail = "ledger" THEN PluginResult(ctx, "plugin_error")
  ELSE IF {c \in PartitionCustomers(customers, phoneNumber) :
             c.nameNormalized = normalizeString(intent.entities.customerName)} = {}
  THEN PluginResult(ctx, "customer_not_found")
  ELSE PluginResult(ctx, "customer_stats")

\* a plugin that commits a sale in the turn that drafts it
handle_Eager(intent, ctx, phoneNumber, fail) ==
  CASE intent.action = "CREATE_SALE" ->
         confirmCreate(handleCreate(intent, ctx).ctx, phoneNumber, fail)
    [] intent.action = "UPDATE_SALE" -> handleUpdate(intent, ctx, phoneNumber, fail)
    [] intent.action = "LIST_SALES" -> handleList(intent, ctx, phoneNumber, fail)
    [] intent.action = "DELETE_SALE" -> handleDelete(intent, ctx, phoneNumber, fail)
    [] intent.action = "VIEW_CUSTOMER" -> handleViewCustomer(intent, ctx, phoneNumber, fail)
    [] OTHER -> PluginResult(ctx, "unrecognized")

handle(intent, ctx, phoneNumber, fail) ==
  CASE intent.action = "CREATE_SALE" -> handleCreate(intent, ctx)
    [] intent.action = "UPDATE_SALE" -> handleUpdate(intent, ctx, phoneNumber, fail)
    [] intent.action = "LIST_SALES" -> handleList(intent, ctx, phoneNumber, fail)
    [] intent.action = "DELETE_SALE" -> handleDelete(intent, ctx, phoneNumber, fail)
    [] intent.action = "VIEW_CUSTOMER" -> handleViewCustomer(intent, ctx, phoneNumber, fail)
    [] OTHER -> PluginResult(ctx, "unrecognized")

\* step 5 of processMessage
Route(intent, ctx, phoneNumber, fail) ==
  IF intent.action = "CONFIRM_ACTION" /\ ctx.pendingConfirmation
  THEN handleConfirm(ctx, phoneNumber, fail)
  ELSE IF intent.action = "CANCEL_ACTION" /\ ctx.pendingConfirmation
  THEN PluginResult(ClearPending(ctx), "cancelled")
  ELSE IF intent.action = "UNKNOWN"
  THEN PluginResult(ctx, "help")
  ELSE handle(intent, ctx, phoneNumber, fail)

\* ------------------------------------------------------------ the dialogue
EmptyMap == [k \in {} |-> NoTurn]

Calls == 1..MaxCalls

IdleCall ==
  [op |-> "none", pc |-> "idle", phoneNumber |-> NoStr, data |-> EmptyEntities,
   customerId |-> NoNum, lastSaleNumber |-> NoNum, saleNumber |-> NoNum,
   attempts |-> 0, err |-> NoStr, similar |-> {}]

Init ==
  /\ now = 0
  /\ cache = EmptyMap
  /\ db = EmptyMap
  /\ customers = {}
  /\ sales = {}
  /\ issued = << >>
  /\ last = NoTurn
  /\ faults = 0
  /\ calls = [c \in Calls |-> IdleCall]
  /\ standby = EmptyMap

AbsentFields(e) ==
  (IF e.product = NoStr THEN {"product"} ELSE {})
  \cup (IF e.customerName = NoName THEN {"customerName"} ELSE {})
  \cup (IF e.totalPrice = NoNum THEN {"totalPrice"} ELSE {})
  \cup (IF e.quantity = NoNum THEN {"quantity"} ELSE {})

\* what the oracle may return for a message about a sale, before processIntent:
\* a message that lacks at most one of product, customer, price and quantity,
\* or a follow-up that carries only a price
RawSaleEntities ==
  {e \in {[EmptyEntities EXCEPT !.product = pr, !.customerName = cn,
                                !.totalPrice = tp, !.quantity = q] :
            pr \in {NoStr, "kit"}, cn \in {NoName, N_BarLua},
            tp \in {NoNum, 40}, q \in {NoNum, 2}} :
     \/ Cardinality(AbsentFields(e)) <= 1
     \/ AbsentFields(e) = {"product", "customerName", "quantity"}}

\* the confidence the oracle reports, in tenths
OracleConfidence == 9

MakeIntent(action, entities, missingFields) ==
  [action |-> action, entities |-> entities, missingFields |-> missingFields,
   confidence |-> OracleConfidence]

\* a failing extract that lets the turn go on as a sale
ExtractFailed_AsSale ==
  [action |-> "CREATE_SALE", entities |-> EmptyEntities, missingFields |-> {},
   confidence |-> 0]

\* what extract returns from its catch, whatever failed in it: the request to
\* the oracle, an empty answer, JSON.parse or processIntent
ExtractFailed ==
  [action |-> "UNKNOWN", entities |-> EmptyEntities, missingFields |-> {},
   confidence |-> 0]

SaleRefs == {NoNum} \cup (1..MaxSales)

\* the intents IntentExtractor.extract may return at minute t, ExtractFailed
\* when the oracle failed
Intents(t) ==
  {ExtractFailed} \cup
  {i \in {MakeIntent("CREATE_SALE", processIntent(e, t), m) :
            e \in RawSaleEntities, m \in {{}, {"quantity"}}} :
     i.missingFields # {} => i.entities.quantity = NoNum}
  \cup {MakeIntent("UPDATE_SALE",
                    [EmptyEntities EXCEPT !.saleNumber = n, !.customerName = cn], {}) :
          n \in SaleRefs, cn \in {NoName, N_BarLuz}}
  \cup {MakeIntent("DELETE_SALE", [EmptyEntities EXCEPT !.saleNumber = n], {}) :
          n \in SaleRefs}
  \cup {MakeIntent("VIEW_CUSTOMER", [EmptyEntities EXCEPT !.customerName = cn], {}) :
          cn \in {NoName, N_BarLua}}
  \cup {MakeIntent(a, EmptyEntities, {}) :
          a \in {"CONFIRM_ACTION", "CANCEL_ACTION", "LIST_SALES",
                 "UPDATE_CUSTOMER", "UNKNOWN"}}

\* where a store operation of the turn may throw
FailPoints(greeting, intent) ==
  IF greeting THEN {"none", "load", "expire"}
  ELSE IF intent.action = "CONFIRM_ACTION"
  THEN {"none", "load", "expire", "ledger", "tx", "save"}
  ELSE IF intent.action \in {"UPDATE_SALE", "DELETE_SALE", "LIST_SALES", "VIEW_CUSTOMER"}
  THEN {"none", "load", "expire", "ledger", "save"}
  ELSE {"none", "load", "expire", "save"}

\* how many sales the partition has been given a number for
IssuedIn(given, phoneNumber) ==
  Cardinality({i \in 1..Len(given) : given[i][1] = phoneNumber})

\* the partition whose dialogue goes on to a second sale
BusyPartition == "5511900000003"

MaxRecalled == 2

\* how many sale numbers a partition is given before the exploration stops
SalesCap(phoneNumber) ==
  IF phoneNumber = BusyPartition THEN MaxRecalled ELSE MaxSales

\* steps 5 and 6 of processMessage: r is what the routing returned, ctx1 the
\* context the intent was routed on, db1 the table after the expiry save
RouteAndSave(r, ctx1, db1, expired, phoneNumber, intent, fail) ==
  /\ IssuedIn(r.issued, phoneNumber) <= SalesCap(phoneNumber)
  /\ cache' = Put(cache, phoneNumber, r.ctx)
  /\ db' = IF fail = "save" THEN db1 ELSE Put(db1, phoneNumber, PersistedRow(r.ctx))
  /\ customers' = r.customers
  /\ sales' = r.sales
  /\ issued' = r.issued
  /\ last' = [phoneNumber |-> phoneNumber, action |-> intent.action, routed |-> TRUE,
              expired |-> expired, pendingType |-> ctx1.pendingAction.type,
              pendingConfirmation |-> ctx1.pendingConfirmation,
              entities |-> intent.entities, missingFields |-> intent.missingFields,
              confidence |-> intent.confidence, fault |-> fail,
              reply |-> IF fail = "save" THEN "error" ELSE r.reply]
  /\ UNCHANGED <<now, calls, standby>>

\* steps 2 to 6 of processMessage on the loaded context; ctx1 is the context
\* after the expiry check
AfterExpiry(ctx1, expired, phoneNumber, greeting, intent, fail) ==
  IF fail = "expire"
  THEN \* the upsert of the expiry save throws
       /\ expired
       /\ cache' = Put(cache, phoneNumber, ctx1)
       /\ last' = [NoTurn EXCEPT !.phoneNumber = phoneNumber, !.expired = TRUE,
                                 !.fault = fail, !.reply = "error"]
       /\ UNCHANGED <<now, db, customers, sales, issued, calls, standby>>
  ELSE IF greeting
  THEN /\ cache' = Put(cache, phoneNumber, ctx1)
       /\ db' = IF expired THEN Put(db, phoneNumber, PersistedRow(ctx1)) ELSE db
       /\ last' = [NoTurn EXCEPT !.phoneNumber = phoneNumber, !.expired = expired,
                                 !.action = "GREETING", !.reply = "greeting"]
       /\ UNCHANGED <<now, customers, sales, issued, calls, standby>>
  ELSE RouteAndSave(Route(intent, ctx1, phoneNumber, fail), ctx1,
                    IF expired THEN Put(db, phoneNumber, PersistedRow(ctx1)) ELSE db,
                    expired, phoneNumber, intent, fail)

\* a turn that routes on the stale pending fields
ExpireIfStale_Never(ctx) == ctx

ExpireIfStale(ctx) == IF IsExpired(ctx, now) THEN ClearPending(ctx) ELSE ctx

\* Agent.processMessage, one whole turn
processMessage(phoneNumber, greeting, intent, fail) ==
  IF fail = "load"
  THEN \* prisma.conversationState.findUnique throws
       /\ phoneNumber \notin DOMAIN cache
       /\ last' = [NoTurn EXCEPT !.phoneNumber = phoneNumber, !.fault = fail,
                                 !.reply = "error"]
       /\ UNCHANGED <<now, cache, db, customers, sales, issued, calls, standby>>
  ELSE AfterExpiry(ExpireIfStale(getContext(phoneNumber)),
                   IsExpired(getContext(phoneNumber), now),
                   phoneNumber, greeting, intent, fail)

Turn ==
  \E phoneNumber \in DialoguePartitions, greeting \in BOOLEAN :
    \E intent \in Intents(now) :
      \E fail \in FailPoints(greeting, intent) :
        /\ greeting => intent = MakeIntent("UNKNOWN", EmptyEntities, {})
        /\ fail # "none" => faults < MaxFaults
        /\ faults' = IF fail = "none" THEN faults ELSE faults + 1
        /\ processMessage(phoneNumber, greeting, intent, fail)

\* the clock advances
Tick ==
  /\ now + TickStep <= MaxTime
  /\ now' = now + TickStep
  /\ last' = NoTurn
  /\ UNCHANGED <<cache, db, customers, sales, issued, faults, calls, standby>>

\* the process restarts: new Agent(...) starts with an empty contextCache
Restart ==
  /\ DOMAIN cache # {}
  /\ cache' = EmptyMap
  /\ last' = NoTurn
  /\ UNCHANGED <<now, db, customers, sales, issued, faults, calls, standby>>

Next == Turn \/ Tick \/ Restart

Spec == Init /\ [][Next]_vars

\* ---------------------------------------------------- several partitions
\* The bot serving every sender of Partitions, their turns interleaved in any
\* order.  The messages are complete sales for two similar customer names,
\* deletions, confirmations, cancellations and ones the oracle cannot place.
PartitionIntents(t) ==
  {MakeIntent("CREATE_SALE",
              processIntent([EmptyEntities EXCEPT !.product = "kit",
                                                  !.customerName = cn,
                                                  !.totalPrice = 40,
                                                  !.quantity = 2], t), {}) :
     cn \in {N_BarLua, N_BarLuz}}
  \cup {MakeIntent("DELETE_SALE", [EmptyEntities EXCEPT !.saleNumber = n], {}) :
          n \in 1..MaxSales}
  \cup {MakeIntent(a, EmptyEntities, {}) :
          a \in {"CONFIRM_ACTION", "CANCEL_ACTION", "UNKNOWN"}}

PartitionTurn ==
  \E phoneNumber \in Partitions :
    \E intent \in PartitionIntents(now) :
      /\ faults' = faults
      /\ processMessage(phoneNumber, FALSE, intent, "none")

PartitionNext == PartitionTurn \/ Tick

SpecPartitions == Init /\ [][PartitionNext]_vars

\* ------------------------------------------------------------ two instances
\* Two Agent instances on one database.  Each has a contextCache of its own;
\* cache is the one of the instance that serves the next message, standby the
\* one of the other.  Which instance a message reaches is not in the program's
\* hands: Switch hands the next messages to the other instance.
InstanceTurn ==
  \E phoneNumber \in DialoguePartitions :
    \E intent \in PartitionIntents(now) :
      /\ faults' = faults
      /\ processMessage(phoneNumber, FALSE, intent, "none")

Switch ==
  /\ cache' = standby
  /\ standby' = cache
  /\ last' = NoTurn
  /\ UNCHANGED <<now, db, customers, sales, issued, faults, calls>>

InstancesNext == InstanceTurn \/ Tick \/ Switch

SpecInstances == Init /\ [][InstancesNext]_vars

\* --------------------------------------------------------------- the ledger
\* SalesService.createSale and deleteSale called concurrently: every await of
\* createSale is a step of its own, so the calls interleave at the store.  The
\* store is modelled by what its indexes enforce, which admits every
\* interleaving the database's own isolation admits.
LedgerSale(name, quantity) ==
  [EmptyEntities EXCEPT !.product = "kit", !.quantity = quantity,
                        !.pricePerUnit = 40, !.totalPrice = 40 * quantity,
                        !.saleDate = DateAt(0), !.salesperson = "Miriam",
                        !.customerName = name, !.customerType = "BUSINESS"]

\* the sale data a caller may pass: valid ones, one whose total is not unit
\* price times quantity, and one for each defect CreateSaleSchema rejects
LedgerInputs ==
  {LedgerSale(name, 1) : name \in {N_BarLua, N_BarLuz}} \cup {LedgerSale(N_BarLua, 0)}
  \cup {[LedgerSale(N_BarLua, 1) EXCEPT !.pricePerUnit = -2],
        [LedgerSale(N_BarLua, 1) EXCEPT !.totalPrice = 0],
        [LedgerSale(N_BarLua, 1) EXCEPT !.saleDate = DateAt(1)],
        [LedgerSale(N_BarLua, 1) EXCEPT !.salesperson = NoStr],
        [LedgerSale(N_BarLua, 1) EXCEPT !.customerName = NoName],
        [LedgerSale(N_BarLuz, 1) EXCEPT !.quantity = 2, !.notes = "pago"]}

SetCall(c, call) == calls' = [calls EXCEPT ![c] = call]

LedgerFrame == UNCHANGED <<now, cache, db, last, faults, standby>>

\* a resolution that silently takes one of the candidates
CustomerLookedUp_AutoPick(found, call) ==
  IF found.exact # {} \/ found.similar # {}
  THEN [call EXCEPT !.pc = "findFirst",
                    !.customerId = (CHOOSE x \in found.exact \cup found.similar : TRUE).id]
  ELSE [call EXCEPT !.pc = "createCustomer"]

\* createSale after CreateSaleSchema.parse passed: findSimilarCustomers has read
CustomerLookedUp(found, call) ==
  IF found.exact # {}
  THEN [call EXCEPT !.pc = "findFirst",
                    !.customerId = (CHOOSE x \in found.exact : TRUE).id]
  ELSE IF found.similar # {}
  THEN [call EXCEPT !.pc = "failed", !.err = "CUSTOMER_DISAMBIGUATION",
                    !.similar = found.similar]
  ELSE [call EXCEPT !.pc = "createCustomer"]

\* createSale up to the first write: validation and the customer lookup
CreateSaleBegin(c) ==
  \E phoneNumber \in Partitions, data \in LedgerInputs :
    /\ calls[c].pc = "idle"
    /\ SetCall(c,
         IF ~ValidSale(data, now)
         THEN [IdleCall EXCEPT !.op = "create", !.phoneNumber = phoneNumber,
                               !.data = data, !.pc = "failed", !.err = "VALIDATION"]
         ELSE CustomerLookedUp(
                findSimilarCustomers(customers, phoneNumber, data.customerName),
                [IdleCall EXCEPT !.op = "create", !.phoneNumber = phoneNumber,
                                 !.data = data]))
    /\ UNCHANGED <<customers, sales, issued>>
    /\ LedgerFrame

\* an insert with no unique index on the table
UniqueCustomerName_NoIndex(custs, phoneNumber, name) == TRUE

\* the unique index Customer_phoneNumber_nameNormalized_key admits a row of
\* this name next to the rows custs
UniqueCustomerName(custs, phoneNumber, name) ==
  \A x \in PartitionCustomers(custs, phoneNumber) :
    x.nameNormalized # normalizeString(name)

\* CustomerService.createCustomer inside findOrCreateCustomer, which createSale
\* or a caller of CustomerService has called
CreateCustomerStep(c) ==
  /\ calls[c].pc = "createCustomer"
  /\ IF UniqueCustomerName(customers, calls[c].phoneNumber, calls[c].data.customerName)
     THEN /\ customers' = customers \cup
                 {CustomerRow(customers, calls[c].phoneNumber,
                              calls[c].data.customerName, calls[c].data.customerType)}
          /\ SetCall(c, [calls[c] EXCEPT
                           !.pc = IF calls[c].op = "create" THEN "findFirst" ELSE "done",
                           !.customerId = Cardinality(customers) + 1])
     ELSE /\ customers' = customers
          /\ SetCall(c, [calls[c] EXCEPT !.pc = "failed", !.err = "STORE"])
  /\ UNCHANGED <<sales, issued>>
  /\ LedgerFrame

\* tx.sale.findFirst: the last sale number of the partition; attempts counts
\* the runs of the transaction callback
TxFindFirst(c) ==
  /\ calls[c].pc = "findFirst"
  /\ SetCall(c, [calls[c] EXCEPT
                   !.pc = "insert",
                   !.attempts = @ + 1,
                   !.lastSaleNumber = LastSaleNumber(sales, calls[c].phoneNumber)])
  /\ UNCHANGED <<customers, sales, issued>>
  /\ LedgerFrame

\* a failed insert that leaves its row behind
RolledBack_Kept(rows, row) == rows \cup {row}

\* the table after prisma.$transaction rejected: the insert of row is undone
RolledBack(rows, row) == rows

\* tx.sale.create with the number after the one read
TxCreate(c) ==
  /\ calls[c].pc = "insert"
  /\ IF UniqueSaleNumber(sales, calls[c].phoneNumber,
                         NextSaleNumber(calls[c].lastSaleNumber))
     THEN /\ sales' = sales \cup
                 {SaleRow(Len(issued) + 1, calls[c].phoneNumber,
                          NextSaleNumber(calls[c].lastSaleNumber),
                          calls[c].data, calls[c].customerId)}
          /\ issued' = Append(issued, <<calls[c].phoneNumber,
                                        NextSaleNumber(calls[c].lastSaleNumber)>>)
          /\ SetCall(c, [calls[c] EXCEPT
                           !.pc = "done",
                           !.saleNumber = NextSaleNumber(calls[c].lastSaleNumber)])
     ELSE /\ sales' = RolledBack(sales,
                                 SaleRow(Len(issued) + 1, calls[c].phoneNumber,
                                         NextSaleNumber(calls[c].lastSaleNumber),
                                         calls[c].data, calls[c].customerId))
          /\ UNCHANGED issued
          /\ SetCall(c, [calls[c] EXCEPT !.pc = "failed", !.err = "STORE"])
  /\ UNCHANGED customers
  /\ LedgerFrame

\* the transaction throws for a reason of the store's own (busy, timed out)
TxThrows(c) ==
  /\ calls[c].pc \in {"findFirst", "insert"}
  /\ SetCall(c, [calls[c] EXCEPT !.pc = "failed", !.err = "STORE"])
  /\ UNCHANGED <<customers, sales, issued>>
  /\ LedgerFrame

DeleteOutcome(r, call) ==
  IF r.err = "" THEN [call EXCEPT !.pc = "done"]
  ELSE [call EXCEPT !.pc = "failed", !.err = r.err]

\* SalesService.deleteSale: one statement
DeleteSaleCall(c) ==
  \E phoneNumber \in Partitions, saleNumber \in 1..MaxCalls :
    /\ calls[c].pc = "idle"
    /\ sales' = deleteSale(sales, phoneNumber, saleNumber, "none").sales
    /\ SetCall(c, DeleteOutcome(deleteSale(sales, phoneNumber, saleNumber, "none"),
                                [IdleCall EXCEPT !.op = "delete",
                                                 !.phoneNumber = phoneNumber,
                                                 !.saleNumber = saleNumber]))
    /\ UNCHANGED <<customers, issued>>
    /\ LedgerFrame

LedgerNext ==
  \E c \in Calls :
    \/ CreateSaleBegin(c)
    \/ CreateCustomerStep(c)
    \/ TxFindFirst(c)
    \/ TxCreate(c)
    \/ TxThrows(c)
    \/ DeleteSaleCall(c)

SpecLedger == Init /\ [][LedgerNext]_vars

\* ------------------------------------------------------------ the customers
\* CustomerService.findOrCreateCustomer, createCustomer and updateCustomer
\* called concurrently.  findOrCreateCustomer awaits the lookup and then the
\* insert, so other calls run between the two; createCustomer and
\* updateCustomer are one statement each.
N_BarLuaLoose == <<"B", "A", "r", " ", " ", "L", "ú", "a">>

N_Short == <<"B">>

CustomerNames == {N_BarLua, N_BarLuz, N_BarLuaLoose}

\* CreateCustomerSchema.parse
ValidCustomer(name, type) ==
  /\ Len(name) >= MinNameLen
  /\ type \in {"PERSON", "BUSINESS"}

CustomerCall(op, phoneNumber, name) ==
  [IdleCall EXCEPT !.op = op, !.phoneNumber = phoneNumber,
                   !.data = [EmptyEntities EXCEPT !.customerName = name,
                                                  !.customerType = "BUSINESS"]]

\* a resolution that takes the first candidate as the customer
LookupOutcome_AutoPick(found, call) ==
  IF found.exact # {} \/ found.similar # {}
  THEN [call EXCEPT !.pc = "done",
                    !.customerId = (CHOOSE x \in found.exact \cup found.similar : TRUE).id]
  ELSE [call EXCEPT !.pc = "createCustomer"]

\* what findOrCreateCustomer does with the result of findSimilarCustomers:
\* return the exact match, return the candidates, or go on to create
LookupOutcome(found, call) ==
  IF found.exact # {}
  THEN [call EXCEPT !.pc = "done",
                    !.customerId = (CHOOSE x \in found.exact : TRUE).id]
  ELSE IF found.similar # {}
  THEN [call EXCEPT !.pc = "done", !.similar = found.similar]
  ELSE [call EXCEPT !.pc = "createCustomer"]

FindOrCreateBegin(c) ==
  \E phoneNumber \in Partitions, name \in CustomerNames :
    /\ calls[c].pc = "idle"
    /\ SetCall(c, LookupOutcome(findSimilarCustomers(customers, phoneNumber, name),
                                CustomerCall("findOrCreate", phoneNumber, name)))
    /\ UNCHANGED <<customers, sales, issued>>
    /\ LedgerFrame

\* createCustomer called on its own: parse, then prisma.customer.create
CreateCustomerCall(c) ==
  \E phoneNumber \in Partitions, name \in CustomerNames \cup {N_Short} :
    /\ calls[c].pc = "idle"
    /\ IF ~ValidCustomer(name, "BUSINESS")
       THEN /\ customers' = customers
            /\ SetCall(c, [CustomerCall("createCustomer", phoneNumber, name)
                             EXCEPT !.pc = "failed", !.err = "VALIDATION"])
       ELSE IF UniqueCustomerName(customers, phoneNumber, name)
       THEN /\ customers' = customers \cup
                   {CustomerRow(customers, phoneNumber, name, "BUSINESS")}
            /\ SetCall(c, [CustomerCall("createCustomer", phoneNumber, name)
                             EXCEPT !.pc = "done",
                                    !.customerId = Cardinality(customers) + 1])
       ELSE /\ customers' = customers
            /\ SetCall(c, [CustomerCall("createCustomer", phoneNumber, name)
                             EXCEPT !.pc = "failed", !.err = "STORE"])
    /\ UNCHANGED <<sales, issued>>
    /\ LedgerFrame

\* the row updateCustomer writes: data.name and data.phoneNumber replace the
\* stored ones when given; nameNormalized follows a given name
UpdatedCustomer(row, newPhone, newName) ==
  [row EXCEPT !.phoneNumber = IF newPhone = NoStr THEN @ ELSE newPhone,
              !.name = IF newName = NoName THEN @ ELSE newName,
              !.nameNormalized = IF newName = NoName THEN @
                                 ELSE normalizeString(newName)]

\* prisma.customer.update on the row target (a set of at most one row): it
\* throws when there is no such row and when the unique index rejects the
\* new key
UpdateOutcome(target, updated, call) ==
  IF target = {}
  THEN [customers |-> customers, call |-> [call EXCEPT !.pc = "failed", !.err = "STORE"]]
  ELSE IF ~UniqueCustomerName(customers \ target, updated.phoneNumber,
                              updated.nameNormalized)
  THEN [customers |-> customers, call |-> [call EXCEPT !.pc = "failed", !.err = "STORE"]]
  ELSE [customers |-> (customers \ target) \cup {updated},
        call |-> [call EXCEPT !.pc = "done", !.customerId = updated.id]]

UpdateTargetRow(target, newPhone, newName, call) ==
  UpdateOutcome(target,
                IF target = {} THEN CustomerRow({}, NoStr, NoName, NoStr)
                ELSE UpdatedCustomer(CHOOSE x \in target : TRUE, newPhone, newName),
                call)

updateCustomer(phoneNumber, name, newPhone, newName, call) ==
  UpdateTargetRow({x \in PartitionCustomers(customers, phoneNumber) :
                     x.nameNormalized = normalizeString(name)},
                  newPhone, newName, call)

UpdateCustomerCall(c) ==
  \E phoneNumber \in Partitions, name \in {N_BarLua, N_BarLuz} :
    \E newPhone \in {NoStr} \cup Partitions, newName \in {NoName} \cup CustomerNames :
      /\ calls[c].pc = "idle"
      /\ customers' = updateCustomer(phoneNumber, name, newPhone, newName,
                                     CustomerCall("updateCustomer", phoneNumber, name)).customers
      /\ SetCall(c, updateCustomer(phoneNumber, name, newPhone, newName,
                                   CustomerCall("updateCustomer", phoneNumber, name)).call)
      /\ UNCHANGED <<sales, issued>>
      /\ LedgerFrame

CustomersNext ==
  \E c \in Calls :
    \/ FindOrCreateBegin(c)
    \/ CreateCustomerStep(c)
    \/ CreateCustomerCall(c)
    \/ UpdateCustomerCall(c)

SpecCustomers == Init /\ [][CustomersNext]_vars

\* ------------------------------------------------------- the remembered sale
\* One partition's dialogue up to its second sale: complete sales for one
\* customer written in two ways, updates and deletions with and without a
\* sale number, confirmations and cancellations, and restarts of the process.
RecallIntents(t) ==
  {MakeIntent("CREATE_SALE",
              processIntent([EmptyEntities EXCEPT !.product = "kit",
                                                  !.customerName = cn,
                                                  !.totalPrice = 40,
                                                  !.quantity = 2], t), {}) :
     cn \in {N_BarLua, N_BarLuaLoose}}
  \cup {MakeIntent("UPDATE_SALE",
                    [EmptyEntities EXCEPT !.saleNumber = n, !.customerName = N_BarLuz], {}) :
          n \in {NoNum} \cup (1..MaxRecalled)}
  \cup {MakeIntent("DELETE_SALE", [EmptyEntities EXCEPT !.saleNumber = n], {}) :
          n \in {NoNum} \cup (1..MaxRecalled)}
  \cup {MakeIntent(a, EmptyEntities, {}) : a \in {"CONFIRM_ACTION", "CANCEL_ACTION"}}

RecallTurn ==
  \E intent \in RecallIntents(now) :
    /\ faults' = faults
    /\ processMessage(BusyPartition, FALSE, intent, "none")

RecallNext == RecallTurn \/ Restart

SpecRecall == Init /\ [][RecallNext]_vars

\* ----------------------------------------------------------------- the dates
\* parsePortugueseDate on weekday names, on each of MaxDay consecutive days.
\* Time is in minutes since the epoch, and the epoch was a Thursday.
MaxDay == 14

EpochDay == 4

\* Date.prototype.getDay
getDay(t) == ((t \div 1440) + EpochDay) % 7

subDays(t, n) == t - n * 1440

\* the table weekdays: name and day number
weekdays ==
  {<<"domingo", 0>>, <<"segunda", 1>>, <<"terca", 2>>, <<"terça", 2>>,
   <<"quarta", 3>>, <<"quinta", 4>>, <<"sexta", 5>>, <<"sabado", 6>>,
   <<"sábado", 6>>}

\* a correction that lets the current day stand
daysAgo_SameDay(currentDayNum, dayNum) ==
  IF currentDayNum - dayNum < 0 THEN currentDayNum - dayNum + 7
  ELSE currentDayNum - dayNum

\* daysAgo = currentDayNum - dayNum, a week more when that is today or ahead
daysAgo(currentDayNum, dayNum) ==
  IF currentDayNum - dayNum <= 0 THEN currentDayNum - dayNum + 7
  ELSE currentDayNum - dayNum

\* parsePortugueseDate(day).date at minute t, for a weekday name day
parseWeekday(dayNum, t) ==
  subDays(StartOfDay(t), daysAgo(getDay(StartOfDay(t)), dayNum))

\* the calls happen at ten in the morning of a day of the second week on
DateCall ==
  /\ calls[1].pc = "idle"
  /\ \E d \in 7..(7 + MaxDay - 1), w \in weekdays :
       /\ calls' = [calls EXCEPT ![1] =
                      [op |-> "parsePortugueseDate", pc |-> "done",
                       input |-> w[1], dayNum |-> w[2], at |-> d * 1440 + 600,
                       result |-> parseWeekday(w[2], d * 1440 + 600)]]
       /\ UNCHANGED <<now, cache, db, customers, sales, issued, last, faults, standby>>

SpecDates == Init /\ [][DateCall]_vars

\* --------------------------------------------------------------- the listing
\* SalesService.listSales over stores that createSale built: sales of two
\* customers and two salespersons, in both partitions, dated at the minute
\* they were made.
MaxListed == 3

N_Ala == <<"Á", "l", "a">>

N_Lu == <<"L", "ú">>

ListDrafts(t) ==
  {[LedgerSale(name, 1) EXCEPT !.salesperson = sp, !.saleDate = DateAt(t)] :
     name \in {N_BarLua, N_Ala}, sp \in {"Miriam", "Gabriel"}}

\* the filters a caller may pass; SaleFiltersSchema requires the partition and
\* both dates, the salesperson and the customer name are optional
ListFilters ==
  {[phoneNumber |-> p, startDate |-> a, endDate |-> b, salesperson |-> sp,
    customerName |-> cn] :
     p \in Partitions, a \in {0, TickStep}, b \in {0, TickStep},
     sp \in {NoStr, "Miriam"}, cn \in {NoName, N_Lu}}

\* the where clause of findMany
ListMatches(rows, custs, filters) ==
  {s \in rows :
     /\ s.phoneNumber = filters.phoneNumber
     /\ s.saleDate >= filters.startDate
     /\ s.saleDate <= filters.endDate
     /\ filters.salesperson # NoStr => s.salesperson = filters.salesperson
     /\ filters.customerName # NoName =>
          \E x \in custs :
            /\ x.id = s.customerId
            /\ Contains(x.nameNormalized, normalizeString(filters.customerName))}

\* an ordering that puts the oldest sale first
SaleBefore_Ascending(a, b) ==
  \/ a.saleDate < b.saleDate
  \/ a.saleDate = b.saleDate /\ a.saleNumber < b.saleNumber

\* orderBy: [{ saleDate: "desc" }, { saleNumber: "desc" }]
SaleBefore(a, b) ==
  \/ a.saleDate > b.saleDate
  \/ a.saleDate = b.saleDate /\ a.saleNumber > b.saleNumber

First(rows) == CHOOSE a \in rows : \A b \in rows \ {a} : SaleBefore(a, b)

RECURSIVE OrderBy(_)
OrderBy(rows) ==
  IF rows = {} THEN << >>
  ELSE <<First(rows)>> \o OrderBy(rows \ {First(rows)})

listSales(rows, custs, filters) == OrderBy(ListMatches(rows, custs, filters))

ListCall(filters, result) ==
  [op |-> "listSales", pc |-> "done", filters |-> filters, result |-> result]

\* createSale returned r
ListCreated(r) ==
  /\ r.err = ""
  /\ customers' = r.customers
  /\ sales' = r.sales
  /\ issued' = r.issued
  /\ calls' = [c \in Calls |-> IdleCall]
  /\ UNCHANGED <<now, cache, db, last, faults, standby>>

ListCreate ==
  \E phoneNumber \in Partitions, data \in ListDrafts(now) :
    /\ Len(issued) < MaxListed
    /\ ListCreated(createSale(customers, sales, issued, phoneNumber, data, now, "none"))

ListSalesCall ==
  \E filters \in ListFilters :
    /\ calls[1].pc = "idle"
    /\ calls' = [calls EXCEPT ![1] = ListCall(filters, listSales(sales, customers, filters))]
    /\ UNCHANGED <<now, cache, db, customers, sales, issued, last, faults, standby>>

ListNext == ListCreate \/ ListSalesCall \/ Tick

SpecList == Init /\ [][ListNext]_vars

\* --------------------------------------------------------------- the strings
\* normalizeString and stringSimilarity applied to every string of up to
\* MaxLen characters, and to every pair of strings of up to MaxPairLen, over an
\* alphabet with an upper-case letter, accented letters and two kinds of space.
MaxLen == 4

MaxPairLen == 3

Alphabet == {"a", "B", "Á", "ú", " ", "\t"}

Strings(n) == UNION {[1..k -> Alphabet] : k \in 0..n}

NormalizeCall ==
  /\ calls[1].pc = "idle"
  /\ \E str \in Strings(MaxLen) :
    /\ calls' = [calls EXCEPT ![1] = [op |-> "normalizeString", pc |-> "done",
                                      str |-> str, result |-> normalizeString(str)]]
    /\ UNCHANGED <<now, cache, db, customers, sales, issued, last, faults, standby>>

SimilarityCall ==
  /\ calls[1].pc = "idle"
  /\ \E str1 \in Strings(MaxPairLen), str2 \in Strings(MaxPairLen) :
    /\ calls' = [calls EXCEPT ![1] = [op |-> "stringSimilarity", pc |-> "done",
                                      str1 |-> str1, str2 |-> str2,
                                      result |-> stringSimilarity(str1, str2)]]
    /\ UNCHANGED <<now, cache, db, customers, sales, issued, last, faults, standby>>

StringsNext == NormalizeCall \/ SimilarityCall

SpecStrings == Init /\ [][StringsNext]_vars

\* ------------------------------------------------------------- the lookup
\* CustomerService.findSimilarCustomers over stores that createCustomer built:
\* up to MaxCustomers rows, among them four names one edit away from the name
\* looked up, at two levels of similarity (6/7 and 7/8).
MaxCustomers == 5

N_BarLux == <<"B", "a", "r", " ", "L", "u", "x">>

N_BarLuy == <<"B", "a", "r", " ", "L", "u", "y">>

N_BarLuas == <<"B", "a", "r", " ", "L", "u", "a", "s">>

\* the customers createCustomer is called with, by partition
SimilarNames(phoneNumber) ==
  IF phoneNumber \in DialoguePartitions
  THEN {N_BarLua, N_BarLuz, N_BarLux, N_BarLuy, N_BarLuas, N_Ala}
  ELSE {N_BarLua, N_BarLuas}

SimilarCreate ==
  /\ Cardinality(customers) < MaxCustomers
  /\ \E phoneNumber \in Partitions :
       \E name \in SimilarNames(phoneNumber) :
         /\ ValidCustomer(name, "BUSINESS")
         /\ UniqueCustomerName(customers, phoneNumber, name)
         /\ customers' = customers \cup
                {CustomerRow(customers, phoneNumber, name, "BUSINESS")}
         /\ calls' = [c \in Calls |-> IdleCall]
         /\ UNCHANGED <<now, cache, db, sales, issued, last, faults, standby>>

\* findSimilarCustomers returned found
SimilarReturned(phoneNumber, name, found) ==
  [op |-> "findSimilarCustomers", pc |-> "done", phoneNumber |-> phoneNumber,
   name |-> name, exact |-> found.exact, similar |-> found.ranked]

SimilarCall ==
  /\ calls[1].pc = "idle"
  /\ \E phoneNumber \in Partitions :
       /\ calls' = [calls EXCEPT ![1] =
                      SimilarReturned(phoneNumber, N_BarLuaLoose,
                                      findSimilarCustomers(customers, phoneNumber,
                                                           N_BarLuaLoose))]
       /\ UNCHANGED <<now, cache, db, customers, sales, issued, last, faults, standby>>

SimilarNext == SimilarCreate \/ SimilarCall

SpecSimilar == Init /\ [][SimilarNext]_vars

\* -------------------------------------------------------- the customer type
\* One partition's dialogue of sales for three customers: a bar, a person
\* whose name begins with the letters of a keyword, and a person whose name
\* has none; the oracle gives the customer type or leaves it out.
N_Barbara == <<"B", "a", "r", "b", "a", "r", "a">>

TypeIntents(t) ==
  {MakeIntent("CREATE_SALE",
              processIntent([EmptyEntities EXCEPT !.product = "kit",
                                                  !.customerName = cn,
                                                  !.customerType = ct,
                                                  !.totalPrice = 40,
                                                  !.quantity = 2], t), {}) :
     cn \in {N_BarLua, N_Barbara, N_Ala}, ct \in {NoStr, "PERSON", "BUSINESS"}}
  \cup {MakeIntent(a, EmptyEntities, {}) : a \in {"CONFIRM_ACTION", "CANCEL_ACTION"}}

TypeTurn ==
  \E intent \in TypeIntents(now) :
    /\ faults' = faults
    /\ processMessage(BusyPartition, FALSE, intent, "none")

TypeNext == TypeTurn \/ Restart

SpecTypes == Init /\ [][TypeNext]_vars

\* ------------------------------------------------ turns in flight together
\* The webhook answers 200 and awaits agent.processMessage per request, with no
\* queue per sender: turns of one partition interleave at their awaits and work
\* on the one cached context object.  A confirmation turn is split at its awaits
\* (the oracle, the ledger, the session upsert); the staging turns run while no
\* confirmation is in flight.  The clock stands still, so nothing expires.
MaxConfirms == 2

MaxConfirmed == 3

ConfirmCalls == 1..MaxConfirms

ConfirmCall(pc, data, saleNumber, reply) ==
  [op |-> "processMessage", pc |-> pc, phoneNumber |-> BusyPartition, data |-> data,
   saleNumber |-> saleNumber, reply |-> reply]

StageIntents(t) ==
  {MakeIntent("CREATE_SALE",
              processIntent([EmptyEntities EXCEPT !.product = "kit",
                                                  !.customerName = N_BarLua,
                                                  !.totalPrice = 40,
                                                  !.quantity = 2], t), {})}
  \cup {MakeIntent("DELETE_SALE", [EmptyEntities EXCEPT !.saleNumber = n], {}) :
          n \in 1..MaxRecalled}

InFlight(c) == calls[c].pc \in {"extract", "createSale", "deleteSale", "save"}

StageTurn ==
  /\ \A c \in ConfirmCalls : ~InFlight(c)
  /\ \E intent \in StageIntents(now) :
       /\ faults' = faults
       /\ processMessage(BusyPartition, FALSE, intent, "none")

\* getContext returns the cached object; the turn awaits intentExtractor.extract
ConfirmBegin(c) ==
  /\ calls[c].pc \in {"idle", "done"}
  /\ BusyPartition \in DOMAIN cache
  /\ SetCall(c, ConfirmCall("extract", EmptyEntities, NoNum, NoStr))
  /\ last' = NoTurn
  /\ UNCHANGED <<now, cache, db, customers, sales, issued, faults, standby>>

\* the oracle returned CONFIRM_ACTION: the route reads the context as it is now,
\* and confirmCreate writes the defaults into the staged data before it awaits
ConfirmRoute(c, ctx) ==
  IF ~ctx.pendingConfirmation
  THEN /\ SetCall(c, ConfirmCall("save", EmptyEntities, NoNum, "unrecognized"))
       /\ UNCHANGED cache
  ELSE IF ctx.pendingAction.type = "CREATE_SALE"
  THEN /\ SetCall(c, ConfirmCall("createSale", FillDefaults(ctx.pendingAction.data),
                                 NoNum, NoStr))
       /\ cache' = Put(cache, BusyPartition,
                       [ctx EXCEPT !.pendingAction.data = FillDefaults(ctx.pendingAction.data)])
  ELSE IF ctx.pendingAction.type = "DELETE_SALE"
  THEN /\ SetCall(c, ConfirmCall("deleteSale", EmptyEntities,
                                 ctx.pendingAction.data.saleNumber, NoStr))
       /\ UNCHANGED cache
  ELSE /\ SetCall(c, ConfirmCall("save", EmptyEntities, NoNum,
                                 IF ctx.pendingAction.type = "none"
                                 THEN "nothing_pending" ELSE "unknown_action"))
       /\ UNCHANGED cache

ConfirmRouted(c) ==
  /\ calls[c].pc = "extract"
  /\ ConfirmRoute(c, cache[BusyPartition])
  /\ last' = NoTurn
  /\ UNCHANGED <<now, db, customers, sales, issued, faults, standby>>

\* createSale returned to confirmCreate, or threw into handleConfirm's catch
CreateReturned(c, r, ctx) ==
  /\ customers' = r.customers
  /\ sales' = r.sales
  /\ issued' = r.issued
  /\ IF r.err # ""
     THEN /\ SetCall(c, ConfirmCall("save", calls[c].data, NoNum, "confirm_error"))
          /\ UNCHANGED cache
     ELSE /\ SetCall(c, ConfirmCall("save", calls[c].data, r.saleNumber, "sale_created"))
          /\ cache' = Put(cache, BusyPartition,
                          [ctx EXCEPT !.pendingAction = NoAction,
                                      !.pendingConfirmation = FALSE,
                                      !.pendingExpiresAt = NoNum,
                                      !.lastSaleNumber = r.saleNumber,
                                      !.lastCustomerName = r.customerName])

ConfirmCreated(c) ==
  /\ calls[c].pc = "createSale"
  /\ Len(issued) < MaxConfirmed
  /\ CreateReturned(c, createSale(customers, sales, issued, BusyPartition,
                                  calls[c].data, now, "none"),
                    cache[BusyPartition])
  /\ last' = NoTurn
  /\ UNCHANGED <<now, db, faults, standby>>

\* deleteSale returned to confirmDelete, or threw into handleConfirm's catch
DeleteReturned(c, r, ctx) ==
  /\ sales' = r.sales
  /\ IF r.err # ""
     THEN /\ SetCall(c, ConfirmCall("save", EmptyEntities, calls[c].saleNumber,
                                    "confirm_error"))
          /\ UNCHANGED cache
     ELSE /\ SetCall(c, ConfirmCall("save", EmptyEntities, calls[c].saleNumber,
                                    "sale_deleted"))
          /\ cache' = Put(cache, BusyPartition, ClearPending(ctx))

ConfirmDeleted(c) ==
  /\ calls[c].pc = "deleteSale"
  /\ DeleteReturned(c, deleteSale(sales, BusyPartition, calls[c].saleNumber, "none"),
                    cache[BusyPartition])
  /\ last' = NoTurn
  /\ UNCHANGED <<now, db, customers, issued, faults, standby>>

\* saveContext: the shared object goes to the cache and to the store
ConfirmSaved(c) ==
  /\ calls[c].pc = "save"
  /\ SetCall(c, [calls[c] EXCEPT !.pc = "done"])
  /\ db' = Put(db, BusyPartition, PersistedRow(cache[BusyPartition]))
  /\ last' = NoTurn
  /\ UNCHANGED <<now, cache, customers, sales, issued, faults, standby>>

ConcurrentNext ==
  \/ StageTurn
  \/ \E c \in ConfirmCalls : ConfirmBegin(c)
  \/ \E c \in ConfirmCalls : ConfirmRouted(c)
  \/ \E c \in ConfirmCalls : ConfirmCreated(c)
  \/ \E c \in ConfirmCalls : ConfirmDeleted(c)
  \/ \E c \in ConfirmCalls : ConfirmSaved(c)

SpecConcurrent == Init /\ [][ConcurrentNext]_vars

\* ------------------------------------------------------ the staged action
\* One partition staging one action over another.  The drafts the oracle flags
\* as incomplete are of product "bolo" and the complete ones of product "kit",
\* so a sale tells which draft it was made from.
StagedIntents(t) ==
  {MakeIntent("CREATE_SALE",
              processIntent([EmptyEntities EXCEPT !.product = "kit",
                                                  !.customerName = N_BarLua,
                                                  !.totalPrice = 40,
                                                  !.quantity = 2], t), {}),
   MakeIntent("CREATE_SALE",
              processIntent([EmptyEntities EXCEPT !.product = "bolo",
                                                  !.customerName = N_BarLua,
                                                  !.pricePerUnit = 20,
                                                  !.totalPrice = 20], t), {"quantity"})}
  \cup {MakeIntent("UPDATE_SALE",
                    [EmptyEntities EXCEPT !.saleNumber = n, !.customerName = N_BarLuz], {}) :
          n \in 1..MaxRecalled}
  \cup {MakeIntent("DELETE_SALE", [EmptyEntities EXCEPT !.saleNumber = n], {}) :
          n \in 1..MaxRecalled}
  \cup {MakeIntent(a, EmptyEntities, {}) : a \in {"CONFIRM_ACTION", "CANCEL_ACTION"}}

StagedTurn ==
  \E intent \in StagedIntents(now) :
    /\ faults' = faults
    /\ processMessage(BusyPartition, FALSE, intent, "none")

SpecStaged == Init /\ [][StagedTurn]_vars

\* =================================================================== claims
\* the context the turn that ends in the primed state was routed on
RoutedContext(phoneNumber) == ExpireIfStale(getContext(phoneNumber))

PendingCleared(ctx) ==
  /\ ctx.pendingAction.type = "none"
  /\ ~ctx.pendingConfirmation
  /\ ctx.pendingExpiresAt = NoNum

\* C1: a sale row is created only in a CONFIRM_ACTION turn that was routed on a
\* session with pendingConfirmation = true and a pending CREATE_SALE; a
\* CREATE_SALE turn writes neither a sale nor a customer.
C1_SaleOnlyOnConfirmedCreate ==
  [][/\ (sales' \ sales) # {} =>
          /\ last'.routed
          /\ last'.action = "CONFIRM_ACTION"
          /\ last'.pendingConfirmation
          /\ last'.pendingType = "CREATE_SALE"
     /\ last'.action = "CREATE_SALE" => (sales' = sales /\ customers' = customers)]_vars

C1_SaleCreatedOnConfirm ==
  /\ last.action = "CONFIRM_ACTION"
  /\ last.reply = "sale_created"
  /\ \E s \in sales : s.phoneNumber = last.phoneNumber

\* C2: whatever the interleaving of concurrent createSale calls, no two stored
\* sales of one partition carry the same saleNumber.
C2_NoDuplicateSaleNumber ==
  \A s1 \in sales, s2 \in sales :
    (s1.phoneNumber = s2.phoneNumber /\ s1.saleNumber = s2.saleNumber) => s1 = s2

\* two calls of one partition read the same last number; one stored its sale
C2_RaceOnSameNumber ==
  \E c1 \in Calls, c2 \in Calls :
    /\ c1 # c2
    /\ calls[c1].op = "create" /\ calls[c2].op = "create"
    /\ calls[c1].phoneNumber = calls[c2].phoneNumber
    /\ calls[c1].pc = "done" /\ calls[c2].pc \in {"insert", "failed"}
    /\ calls[c1].lastSaleNumber # NoNum
    /\ calls[c1].lastSaleNumber = calls[c2].lastSaleNumber

Succeeded(phoneNumber) ==
  {c \in Calls : /\ calls[c].op = "create" /\ calls[c].pc = "done"
                 /\ calls[c].phoneNumber = phoneNumber}

NoDeleteCalled(phoneNumber) ==
  \A c \in Calls : ~(calls[c].op = "delete" /\ calls[c].phoneNumber = phoneNumber)

\* C3: in a partition that started empty and saw no delete, the stored sale
\* numbers are exactly 1..N, N the number of createSale calls that returned.
C3_NumbersAreOneToN ==
  \A phoneNumber \in Partitions :
    NoDeleteCalled(phoneNumber) =>
      SaleNumbers(sales, phoneNumber) = 1..Cardinality(Succeeded(phoneNumber))

\* two calls returned and a third one failed, all in one partition without deletes
C3_TwoStoredOneFailed ==
  \E phoneNumber \in Partitions :
    /\ NoDeleteCalled(phoneNumber)
    /\ Cardinality(Succeeded(phoneNumber)) = 2
    /\ \E c \in Calls : /\ calls[c].op = "create" /\ calls[c].pc = "failed"
                        /\ calls[c].phoneNumber = phoneNumber
                        /\ calls[c].err = "STORE"

\* C4: every number createSale assigns is greater than every number assigned
\* earlier in the partition, deletions included.
C4_NumbersMonotonic ==
  [][Len(issued') = Len(issued) + 1 =>
       \A i \in 1..Len(issued) :
         issued[i][1] = issued'[Len(issued')][1] =>
           issued[i][2] < issued'[Len(issued')][2]]_vars

PendingConsistent(ctx) ==
  ctx.pendingConfirmation =>
    (ctx.pendingAction.type # "none" /\ ctx.pendingExpiresAt # NoNum)

\* C5: in every cached and every persisted session, pendingConfirmation = true
\* implies a pending action and a pending expiry, after failed turns as well.
C5_PendingFieldsConsistent ==
  /\ \A phoneNumber \in DOMAIN cache : PendingConsistent(cache[phoneNumber])
  /\ \A phoneNumber \in DOMAIN db : PendingConsistent(db[phoneNumber])

\* a confirmation has just failed in the ledger and the session still awaits it
C5_AwaitingAfterError ==
  /\ last.fault \in {"ledger", "tx"}
  /\ last.reply = "confirm_error"
  /\ last.phoneNumber \in DOMAIN cache
  /\ cache[last.phoneNumber].pendingConfirmation
  /\ last.phoneNumber \in DOMAIN db
  /\ db[last.phoneNumber].pendingConfirmation

\* C6: a turn that arrives after pendingExpiresAt is routed on cleared pending
\* fields; unless it stages something itself it leaves them cleared, and a
\* CONFIRM_ACTION routed with nothing pending changes no sale and no customer.
C6_ExpiredPendingNeverCommits ==
  [][/\ (last'.routed /\ IsExpired(getContext(last'.phoneNumber), now)) =>
          /\ last'.expired
          /\ last'.pendingType = "none"
          /\ ~last'.pendingConfirmation
          /\ last'.action \notin {"CREATE_SALE", "UPDATE_SALE", "DELETE_SALE"} =>
               /\ PendingCleared(cache'[last'.phoneNumber])
               /\ PendingCleared(db'[last'.phoneNumber])
     /\ (last'.routed /\ last'.action = "CONFIRM_ACTION" /\ last'.pendingType = "none") =>
          (sales' = sales /\ customers' = customers)]_vars

\* a confirmation arrived after the expiry and was routed
C6_ConfirmAfterExpiry ==
  /\ last.routed
  /\ last.expired
  /\ last.action = "CONFIRM_ACTION"
  /\ last.fault = "none"
  /\ PendingCleared(cache[last.phoneNumber])

\* stored agrees with the merge of prior and entities on one field
MergedField(stored, prior, entity, absent) ==
  IF entity # absent THEN stored = entity
  ELSE prior # absent => stored = prior

\* C7: after a CREATE_SALE turn on an open CREATE_SALE draft the stored draft is
\* the merge of the prior draft and the entities of this message.
C7_DraftIsMerged ==
  [][(/\ last'.routed
      /\ last'.action = "CREATE_SALE"
      /\ RoutedContext(last'.phoneNumber).pendingAction.type = "CREATE_SALE") =>
       /\ \A f \in {"product", "salesperson", "customerType", "notes"} :
            MergedField(cache'[last'.phoneNumber].pendingAction.data[f],
                        RoutedContext(last'.phoneNumber).pendingAction.data[f],
                        last'.entities[f], NoStr)
       /\ \A g \in {"quantity", "pricePerUnit", "totalPrice", "saleNumber"} :
            MergedField(cache'[last'.phoneNumber].pendingAction.data[g],
                        RoutedContext(last'.phoneNumber).pendingAction.data[g],
                        last'.entities[g], NoNum)
       /\ MergedField(cache'[last'.phoneNumber].pendingAction.data.customerName,
                      RoutedContext(last'.phoneNumber).pendingAction.data.customerName,
                      last'.entities.customerName, NoName)
       /\ MergedField(cache'[last'.phoneNumber].pendingAction.data.saleDate,
                      RoutedContext(last'.phoneNumber).pendingAction.data.saleDate,
                      last'.entities.saleDate, NoDate)]_vars

\* C8: after a CREATE_SALE turn the session holds the draft with an expiry 15
\* minutes ahead, and pendingConfirmation is true exactly when no required and
\* no flagged field is missing, whatever the session held before.
C8_CreateTurnSetsStage ==
  [][(last'.routed /\ last'.action = "CREATE_SALE" /\ last'.fault = "none") =>
       /\ cache'[last'.phoneNumber].pendingAction.type = "CREATE_SALE"
       /\ cache'[last'.phoneNumber].pendingExpiresAt = now + CreateExpiryMin
       /\ cache'[last'.phoneNumber].pendingConfirmation =
            (MissingRequired(last'.entities) = {} /\ last'.missingFields = {})]_vars

\* the customer of the sale numbered n carries the name
SaleCustomerIs(rows, custs, phoneNumber, n, name) ==
  /\ getSaleByNumber(rows, phoneNumber, n) # {}
  /\ \A s \in getSaleByNumber(rows, phoneNumber, n) :
       \E c \in custs : c.id = s.customerId /\ c.name = name

\* C9: while an UPDATE_SALE awaits confirmation the sale stays as it is, and
\* the CONFIRM_ACTION turn gives the sale the staged customer and clears the
\* pending fields.
C9_UpdateAppliedOnConfirm ==
  [][(/\ last'.routed
      /\ last'.pendingType = "UPDATE_SALE"
      /\ last'.pendingConfirmation
      /\ last'.fault = "none") =>
       IF last'.action = "CONFIRM_ACTION"
       THEN /\ SaleCustomerIs(sales', customers', last'.phoneNumber,
                  RoutedContext(last'.phoneNumber).pendingAction.data.saleNumber,
                  RoutedContext(last'.phoneNumber).pendingAction.data.customerName)
            /\ PendingCleared(cache'[last'.phoneNumber])
       ELSE sales' = sales]_vars

StagedDelete(ctx, n) ==
  /\ ctx.pendingAction.type = "DELETE_SALE"
  /\ ctx.pendingAction.data.saleNumber = n
  /\ ctx.pendingConfirmation
  /\ ctx.pendingExpiresAt # NoNum

\* C10: a sale leaves the ledger only in a CONFIRM_ACTION turn routed on a
\* session awaiting confirmation of a DELETE_SALE for its number; a DELETE_SALE
\* turn deletes nothing and stages the deletion exactly when the sale exists;
\* after the turn that confirms the deletion of a stored sale, the store not
\* failing in it, the sale is gone and the pending fields are cleared.
C10_DeleteOnlyOnConfirm ==
  [][/\ (sales \ sales') # {} =>
          /\ last'.routed
          /\ last'.action = "CONFIRM_ACTION"
          /\ last'.pendingConfirmation
          /\ last'.pendingType = "DELETE_SALE"
          /\ \A s \in sales \ sales' :
               /\ s.phoneNumber = last'.phoneNumber
               /\ s.saleNumber =
                    RoutedContext(last'.phoneNumber).pendingAction.data.saleNumber
     /\ (last'.routed /\ last'.action = "DELETE_SALE") =>
          /\ sales' = sales
          /\ last'.fault = "none" =>
               IF getSaleByNumber(sales, last'.phoneNumber,
                    TargetSaleNumber(last', RoutedContext(last'.phoneNumber))) # {}
               THEN StagedDelete(cache'[last'.phoneNumber],
                      TargetSaleNumber(last', RoutedContext(last'.phoneNumber)))
               ELSE cache'[last'.phoneNumber] = RoutedContext(last'.phoneNumber)
     /\ (/\ last'.routed
         /\ last'.action = "CONFIRM_ACTION"
         /\ last'.pendingConfirmation
         /\ last'.pendingType = "DELETE_SALE"
         /\ last'.fault = "none"
         /\ getSaleByNumber(sales, last'.phoneNumber,
              RoutedContext(last'.phoneNumber).pendingAction.data.saleNumber) # {}) =>
          /\ getSaleByNumber(sales', last'.phoneNumber,
               RoutedContext(last'.phoneNumber).pendingAction.data.saleNumber) = {}
          /\ PendingCleared(cache'[last'.phoneNumber])
          /\ PendingCleared(db'[last'.phoneNumber])]_vars

\* a staged deletion has just been confirmed and the sale is gone
C10_SaleDeletedOnConfirm ==
  /\ last.action = "CONFIRM_ACTION"
  /\ last.pendingType = "DELETE_SALE"
  /\ last.reply = "sale_deleted"
  /\ Len(issued) > 0
  /\ PartitionSales(sales, last.phoneNumber) = {}

\* C11: a CANCEL_ACTION turn routed on a session that holds any pending action,
\* a draft still being completed or an action awaiting confirmation, ends with
\* the pending fields cleared and changes no sale and no customer.
C11_CancelClearsAnyPending ==
  [][(/\ last'.routed
      /\ last'.action = "CANCEL_ACTION"
      /\ last'.fault = "none"
      /\ RoutedContext(last'.phoneNumber).pendingAction.type # "none") =>
       /\ PendingCleared(cache'[last'.phoneNumber])
       /\ sales' = sales
       /\ customers' = customers]_vars

\* the customers of the partition whose name is similar to name (> 0.8)
Candidates(custs, phoneNumber, name) ==
  {x \in PartitionCustomers(custs, phoneNumber) :
     AboveThreshold(stringSimilarity(name, x.name))}

HasExactMatch(custs, phoneNumber, name) ==
  \E x \in PartitionCustomers(custs, phoneNumber) :
    x.nameNormalized = normalizeString(name)

\* C12: a createSale call with valid data whose customer name has no exact
\* normalized match in the partition but at least one customer with
\* similarity > 0.8 fails with CUSTOMER_DISAMBIGUATION carrying those
\* candidates, writes neither a sale nor a customer, and does nothing after.
C12_DisambiguationWritesNothing ==
  [][\A c \in Calls :
       /\ (/\ calls[c].pc = "idle"
           /\ calls'[c].op = "create"
           /\ ValidSale(calls'[c].data, now)
           /\ ~HasExactMatch(customers, calls'[c].phoneNumber,
                             calls'[c].data.customerName)
           /\ Candidates(customers, calls'[c].phoneNumber,
                         calls'[c].data.customerName) # {}) =>
            /\ calls'[c].pc = "failed"
            /\ calls'[c].err = "CUSTOMER_DISAMBIGUATION"
            /\ calls'[c].similar =
                 Candidates(customers, calls'[c].phoneNumber,
                            calls'[c].data.customerName)
            /\ sales' = sales
            /\ customers' = customers
       /\ calls[c].err = "CUSTOMER_DISAMBIGUATION" => calls'[c] = calls[c]]_vars

\* a call has failed for a name similar to a stored customer's
C12_DisambiguationRaised ==
  \E c \in Calls :
    /\ calls[c].pc = "failed"
    /\ calls[c].err = "CUSTOMER_DISAMBIGUATION"
    /\ calls[c].data.customerName = N_BarLuz
    /\ \E x \in calls[c].similar : x.name = N_BarLua

\* C13: when the commit of a confirmed CREATE_SALE draft fails with
\* CUSTOMER_DISAMBIGUATION, the reply of the turn is not the generic
\* confirmation error: it presents the candidates.
C13_DisambiguationIsPresented ==
  [][(/\ last'.routed
      /\ last'.action = "CONFIRM_ACTION"
      /\ last'.pendingConfirmation
      /\ last'.pendingType = "CREATE_SALE"
      /\ createSale(customers, sales, issued, last'.phoneNumber,
                    FillDefaults(RoutedContext(last'.phoneNumber).pendingAction.data),
                    now, "none").err = "CUSTOMER_DISAMBIGUATION") =>
       last'.reply # "confirm_error"]_vars

\* C14: whatever findOrCreateCustomer, createCustomer and updateCustomer calls
\* run and however they interleave, no two customer rows of one partition have
\* the same normalized name.
C14_NormalizedNameUnique ==
  \A x \in customers, y \in customers :
    (x.phoneNumber = y.phoneNumber /\ x.nameNormalized = y.nameNormalized) => x = y

\* two calls went on to create the same customer; one insert was rejected
C14_SecondInsertRejected ==
  \E c \in Calls, d \in Calls :
    /\ calls[c].op = "findOrCreate" /\ calls[c].pc = "done"
    /\ calls[c].similar = {}
    /\ calls[d].op = "findOrCreate" /\ calls[d].pc = "failed"
    /\ calls[d].phoneNumber = calls[c].phoneNumber
    /\ normalizeString(calls[d].data.customerName)
         = normalizeString(calls[c].data.customerName)
    /\ \E e \in Calls : calls[e].op = "updateCustomer" /\ calls[e].pc = "failed"

ExactMatches(custs, phoneNumber, name) ==
  {x \in PartitionCustomers(custs, phoneNumber) :
     x.nameNormalized = normalizeString(name)}

\* what findOrCreateCustomer returns when nothing runs between its lookup and
\* its insert
Resolved(custs, call) ==
  findOrCreateCustomer(custs, call.phoneNumber, call.data.customerName,
                       call.data.customerType)

\* C15: findOrCreateCustomer goes on to create a row only when the partition
\* has neither an exact normalized match nor a customer with similarity > 0.8;
\* with an exact match it returns that customer with needsConfirmation false
\* and creates nothing; with similar customers only it returns no customer,
\* needsConfirmation true and the candidates, and creates nothing.  Stated for
\* the call as it runs step by step and for the function run at once.
C15_FindOrCreateBranches ==
  [][\A c \in Calls :
       (calls[c].pc = "idle" /\ calls'[c].op = "findOrCreate") =>
         /\ customers' = customers
         /\ IF HasExactMatch(customers, calls'[c].phoneNumber,
                             calls'[c].data.customerName)
            THEN /\ calls'[c].pc = "done"
                 /\ \E x \in ExactMatches(customers, calls'[c].phoneNumber,
                                          calls'[c].data.customerName) :
                      calls'[c].customerId = x.id
                 /\ calls'[c].similar = {}
                 /\ Resolved(customers, calls'[c])
                      = [customers |-> customers,
                         customer |-> ExactMatches(customers, calls'[c].phoneNumber,
                                                   calls'[c].data.customerName),
                         needsConfirmation |-> FALSE, similar |-> {}]
            ELSE IF Candidates(customers, calls'[c].phoneNumber,
                               calls'[c].data.customerName) # {}
            THEN /\ calls'[c].pc = "done"
                 /\ calls'[c].customerId = NoNum
                 /\ calls'[c].similar =
                      Candidates(customers, calls'[c].phoneNumber,
                                 calls'[c].data.customerName)
                 /\ Resolved(customers, calls'[c])
                      = [customers |-> customers, customer |-> {},
                         needsConfirmation |-> TRUE,
                         similar |-> Candidates(customers, calls'[c].phoneNumber,
                                                calls'[c].data.customerName)]
            ELSE /\ calls'[c].pc = "createCustomer"
                 /\ ~Resolved(customers, calls'[c]).needsConfirmation
                 /\ \E row \in Resolved(customers, calls'[c]).customer :
                      /\ row \notin customers
                      /\ row.name = calls'[c].data.customerName
                      /\ row.phoneNumber = calls'[c].phoneNumber
                      /\ row.nameNormalized =
                           normalizeString(calls'[c].data.customerName)
                      /\ Resolved(customers, calls'[c]).customers
                           = customers \cup {row}]_vars

\* one call was answered with candidates, one with the exact match and one
\* created the customer
C15_AllBranchesTaken ==
  \E c \in Calls, d \in Calls, e \in Calls :
    /\ calls[c].op = "findOrCreate" /\ calls[c].pc = "done"
    /\ calls[c].similar # {} /\ calls[c].customerId = NoNum
    /\ calls[d].op = "findOrCreate" /\ calls[d].pc = "done"
    /\ calls[d].data.customerName = N_BarLuaLoose
    /\ calls[d].customerId # NoNum
    /\ calls[e].op = "findOrCreate" /\ calls[e].pc = "done"
    /\ calls[e].data.customerName = N_BarLua
    /\ calls[e].customerId = calls[d].customerId
    /\ Cardinality(customers) = 1

\* C16: when the transaction of createSale fails for a transient reason, a
\* store hiccup or a number taken by a concurrent creation, the call reads the
\* maximum again and retries: a call fails in its transaction only after the
\* transaction has run more than once.
C16_TransactionIsRetried ==
  [][\A c \in Calls :
       (/\ calls[c].op = "create"
        /\ calls[c].pc \in {"findFirst", "insert"}
        /\ calls'[c].pc = "failed") =>
         calls'[c].attempts > 1]_vars

\* C17: every call of processMessage ends with a reply, whatever the message
\* and whichever store operation of the turn throws; a failure of the session
\* store gives the generic reply of processMessage, and a failure of the
\* ledger inside the plugin is answered by the plugin: the turn is routed and
\* saved and its reply is the plugin's, not the one of processMessage's catch.
C17_TurnAlwaysReplies ==
  /\ last.phoneNumber # NoStr => last.reply # NoStr
  /\ last.fault \in {"load", "expire", "save"} => last.reply = "error"
  /\ last.fault \in {"ledger", "tx"} =>
       /\ last.routed
       /\ last.reply \notin {NoStr, "error"}
       /\ db[last.phoneNumber] = PersistedRow(cache[last.phoneNumber])

\* the transaction of createSale threw in a confirming turn and the plugin
\* answered
C17_PluginAnsweredFailure ==
  /\ last.action = "CONFIRM_ACTION"
  /\ last.pendingType = "CREATE_SALE"
  /\ last.fault = "tx"
  /\ last.reply = "confirm_error"

PendingFields(ctx) ==
  <<ctx.pendingAction, ctx.pendingConfirmation, ctx.pendingExpiresAt>>

SessionFields(ctx) ==
  <<ctx.pendingAction, ctx.pendingConfirmation, ctx.pendingExpiresAt,
    ctx.lastSaleNumber, ctx.lastCustomerName>>

\* the turn that ends in the primed state had an intent that commits nothing:
\* UNKNOWN, LIST_SALES, VIEW_CUSTOMER, or CONFIRM_ACTION or CANCEL_ACTION on a
\* session with no pending action
NonCommittalTurn ==
  /\ last'.routed
  /\ \/ last'.action \in {"UNKNOWN", "LIST_SALES", "VIEW_CUSTOMER"}
     \/ /\ last'.action \in {"CONFIRM_ACTION", "CANCEL_ACTION"}
        /\ getContext(last'.phoneNumber).pendingAction.type = "none"

\* C19 as stated: a turn whose intent is UNKNOWN, LIST_SALES or VIEW_CUSTOMER,
\* or CONFIRM_ACTION or CANCEL_ACTION while nothing is pending, leaves sales,
\* customers, pendingAction, pendingConfirmation, pendingExpiresAt,
\* lastSaleNumber and lastCustomerName as they were before the turn.
C19_NonCommittalTurnMutatesNothing ==
  [][NonCommittalTurn =>
       /\ sales' = sales
       /\ customers' = customers
       /\ SessionFields(cache'[last'.phoneNumber])
            = SessionFields(getContext(last'.phoneNumber))]_vars

\* C19 amended: such a turn leaves sales, customers, lastSaleNumber and
\* lastCustomerName as they were, and the three pending fields as they were
\* unless the pending action had expired on arrival, which clears them; what
\* is persisted is the same, when the final save does not fail.
C19_NonCommittalTurnOnlyExpires ==
  [][NonCommittalTurn =>
       /\ sales' = sales
       /\ customers' = customers
       /\ SessionFields(cache'[last'.phoneNumber])
            = IF IsExpired(getContext(last'.phoneNumber), now)
              THEN <<NoAction, FALSE, NoNum,
                     getContext(last'.phoneNumber).lastSaleNumber,
                     getContext(last'.phoneNumber).lastCustomerName>>
              ELSE SessionFields(getContext(last'.phoneNumber))
       /\ last'.fault # "save" =>
            db'[last'.phoneNumber] = PersistedRow(cache'[last'.phoneNumber])]_vars

\* a stored customer was looked up in a session that remembers its last sale
C19_ViewedStoredCustomer ==
  /\ last.routed
  /\ last.action = "VIEW_CUSTOMER"
  /\ last.reply = "customer_stats"
  /\ cache[last.phoneNumber].lastSaleNumber # NoNum
  /\ cache[last.phoneNumber].lastCustomerName = N_BarLua

\* the rows of a table that belong to the partition
RowsOf(rows, phoneNumber) == {x \in rows : x.phoneNumber = phoneNumber}

\* the session of the partition as the agent and the store hold it
SessionOf(phoneNumber) ==
  <<IF phoneNumber \in DOMAIN cache THEN {cache[phoneNumber]} ELSE {},
    IF phoneNumber \in DOMAIN db THEN {db[phoneNumber]} ELSE {}>>

\* C20: with the turns of two partitions interleaved in any order, a turn of
\* one partition leaves the session, the customers and the sales of the other
\* unchanged, and the number a new sale gets is the one after the highest
\* stored number of its own partition, whatever the other partition holds.
C20_PartitionsIndependent ==
  [][last'.phoneNumber \in Partitions =>
       /\ \A other \in Partitions \ {last'.phoneNumber} :
            /\ SessionOf(other)' = SessionOf(other)
            /\ RowsOf(customers', other) = RowsOf(customers, other)
            /\ RowsOf(sales', other) = RowsOf(sales, other)
       /\ \A s \in sales' \ sales :
            /\ s.phoneNumber = last'.phoneNumber
            /\ \A t \in RowsOf(sales, s.phoneNumber) : t.saleNumber < s.saleNumber
            /\ \/ s.saleNumber = 1
               \/ \E t \in RowsOf(sales, s.phoneNumber) :
                    t.saleNumber = s.saleNumber - 1
       /\ \A x \in customers' \ customers : x.phoneNumber = last'.phoneNumber]_vars

\* each partition has stored its first sale, the second one after the first,
\* while the first partition was waiting for a confirmation
C20_BothPartitionsSold ==
  /\ \A phoneNumber \in Partitions :
       {s.saleNumber : s \in RowsOf(sales, phoneNumber)} = {1}
  /\ last.reply = "sale_created"
  /\ \E other \in Partitions \ {last.phoneNumber} :
       /\ other \in DOMAIN cache
       /\ cache[other].pendingConfirmation

\* what the store holds for the partition, a new session when it holds none
Persisted(phoneNumber) ==
  IF phoneNumber \in DOMAIN db THEN db[phoneNumber]
  ELSE PersistedRow(NewContext(phoneNumber))

\* C21: with two instances that have caches of their own and share the store,
\* every turn routes on the session most recently persisted for the
\* partition, and a sale is committed only while the persisted session awaits
\* its confirmation: a pending action committed, cancelled or expired through
\* one instance is not confirmed again through the other.
C21_RoutesOnPersistedSession ==
  [][last'.routed =>
       /\ PersistedRow(getContext(last'.phoneNumber)) = Persisted(last'.phoneNumber)
       /\ sales' # sales =>
            /\ Persisted(last'.phoneNumber).pendingConfirmation
            /\ Persisted(last'.phoneNumber).pendingAction.type
                 \in {"CREATE_SALE", "DELETE_SALE"}]_vars

\* C22: a createSale call whose draft has a quantity that is not positive, a
\* negative unit price, a total price that is not positive, a sale date in the
\* future, or an empty salesperson or customer name is rejected at once, and
\* the call writes neither a customer nor a sale, then or later.
C22_InvalidDraftRejected ==
  [][\A c \in Calls :
       /\ (/\ calls[c].pc = "idle"
           /\ calls'[c].op = "create"
           /\ \/ calls'[c].data.quantity <= 0
              \/ calls'[c].data.pricePerUnit < 0
              \/ calls'[c].data.totalPrice <= 0
              \/ calls'[c].data.saleDate.t > now
              \/ calls'[c].data.salesperson = ""
              \/ calls'[c].data.customerName = << >>) =>
            /\ calls'[c].pc = "failed"
            /\ calls'[c].err = "VALIDATION"
            /\ customers' = customers
            /\ sales' = sales
       /\ calls[c].err = "VALIDATION" => calls'[c] = calls[c]]_vars

\* a draft dated in the future was rejected while another call stored a sale
C22_FutureDateRejected ==
  \E c \in Calls, d \in Calls :
    /\ calls[c].pc = "failed"
    /\ calls[c].err = "VALIDATION"
    /\ calls[c].data.saleDate.t > now
    /\ calls[d].pc = "done"
    /\ calls[d].op = "create"
    /\ Cardinality(sales) = 1
    /\ Cardinality(customers) = 1

\* C23: every stored sale has totalPrice = pricePerUnit * quantity.
C23_TotalIsUnitTimesQuantity ==
  \A s \in sales : s.totalPrice = s.pricePerUnit * s.quantity

\* the draft a create turn admits to the confirmation stage
Admitted(data) ==
  /\ data.product # NoStr
  /\ data.customerName # NoName
  /\ Truthy(data.totalPrice) \/ Truthy(data.pricePerUnit)

\* C24: a CONFIRM_ACTION on a draft that was admitted to the confirmation
\* stage (product, customer name and a price present) commits it when the
\* customer name is not ambiguous and no store operation fails: the reply
\* announces the sale and the new row carries the draft, with quantity 1 where
\* the draft has none and the time of the turn where it has no date.
C24_AdmittedDraftCommits ==
  [][(/\ last'.routed
      /\ last'.action = "CONFIRM_ACTION"
      /\ last'.fault = "none"
      /\ RoutedContext(last'.phoneNumber).pendingConfirmation
      /\ RoutedContext(last'.phoneNumber).pendingAction.type = "CREATE_SALE"
      /\ Admitted(RoutedContext(last'.phoneNumber).pendingAction.data)
      /\ \/ HasExactMatch(customers, last'.phoneNumber,
                          RoutedContext(last'.phoneNumber).pendingAction.data.customerName)
         \/ Candidates(customers, last'.phoneNumber,
                       RoutedContext(last'.phoneNumber).pendingAction.data.customerName) = {}) =>
       /\ last'.reply = "sale_created"
       /\ \E s \in sales' \ sales :
            /\ s.phoneNumber = last'.phoneNumber
            /\ s.product = RoutedContext(last'.phoneNumber).pendingAction.data.product
            /\ s.quantity =
                 IF Truthy(RoutedContext(last'.phoneNumber).pendingAction.data.quantity)
                 THEN RoutedContext(last'.phoneNumber).pendingAction.data.quantity
                 ELSE 1]_vars

\* C25: when createSale returns number n, getSaleByNumber(partition, n) in the
\* state the call leaves finds exactly one sale, whose product, quantity,
\* pricePerUnit, totalPrice, saleDate, salesperson and notes are those of the
\* draft and whose customer is the partition's customer with the draft's
\* normalized name.
C25_CreateThenGet ==
  [][\A c \in Calls :
       (calls[c].pc = "insert" /\ calls'[c].pc = "done") =>
         /\ Cardinality(getSaleByNumber(sales', calls'[c].phoneNumber,
                                        calls'[c].saleNumber)) = 1
         /\ \A s \in getSaleByNumber(sales', calls'[c].phoneNumber, calls'[c].saleNumber) :
              /\ s.product = calls[c].data.product
              /\ s.quantity = calls[c].data.quantity
              /\ s.pricePerUnit = calls[c].data.pricePerUnit
              /\ s.totalPrice = calls[c].data.totalPrice
              /\ s.saleDate = calls[c].data.saleDate.t
              /\ s.salesperson = calls[c].data.salesperson
              /\ s.notes = calls[c].data.notes
              /\ \E x \in customers' :
                   /\ x.id = s.customerId
                   /\ x.phoneNumber = calls[c].phoneNumber
                   /\ x.nameNormalized = normalizeString(calls[c].data.customerName)]_vars

\* a draft with notes was stored as the second sale of its partition
C25_StoredWithNotes ==
  \E c \in Calls :
    /\ calls[c].pc = "done"
    /\ calls[c].op = "create"
    /\ calls[c].data.notes = "pago"
    /\ calls[c].saleNumber = 2
    /\ getSaleByNumber(sales, calls[c].phoneNumber, 2) # {}

\* the rows a listing returned, as a set
Listed(call) == {call.result[i] : i \in 1..Len(call.result)}

\* C26: listSales returns, each once, exactly the sales of the given partition
\* dated within [startDate, endDate], sold by the salesperson of the filter
\* when one is given, to a customer whose normalized name contains the
\* normalized customer filter when one is given; the result is ordered by sale
\* date descending, then sale number descending.
C26_ListIsFilteredAndOrdered ==
  calls[1].op = "listSales" =>
    /\ Cardinality(Listed(calls[1])) = Len(calls[1].result)
    /\ \A s \in sales :
         s \in Listed(calls[1]) <=>
           /\ s.phoneNumber = calls[1].filters.phoneNumber
           /\ calls[1].filters.startDate <= s.saleDate
           /\ s.saleDate <= calls[1].filters.endDate
           /\ calls[1].filters.salesperson = "" \/ s.salesperson = calls[1].filters.salesperson
           /\ \/ calls[1].filters.customerName = << >>
              \/ \E x \in customers :
                   /\ x.id = s.customerId
                   /\ Contains(normalizeString(x.name),
                               normalizeString(calls[1].filters.customerName))
    /\ Listed(calls[1]) \subseteq sales
    /\ \A i \in 1..Len(calls[1].result), j \in 1..Len(calls[1].result) :
         i < j =>
           \/ calls[1].result[i].saleDate > calls[1].result[j].saleDate
           \/ /\ calls[1].result[i].saleDate = calls[1].result[j].saleDate
              /\ calls[1].result[i].saleNumber > calls[1].result[j].saleNumber

\* a listing with a customer filter returned two sales of one date, higher
\* number first, and left out a sale of the partition
C26_ListedTwoOfThree ==
  /\ calls[1].op = "listSales"
  /\ calls[1].filters.customerName # NoName
  /\ Len(calls[1].result) = 2
  /\ calls[1].result[1].saleDate = calls[1].result[2].saleDate
  /\ Cardinality(PartitionSales(sales, calls[1].filters.phoneNumber)) = 3

\* C27: normalizeString is idempotent: normalizing what it returned returns
\* the same string.
C27_NormalizeIdempotent ==
  calls[1].op = "normalizeString" =>
    normalizeString(calls[1].result) = calls[1].result

\* an upper-case accented letter, a space and a tab, and an upper-case letter
\* were normalized to three characters
C27_NormalizedMixed ==
  /\ calls[1].op = "normalizeString"
  /\ calls[1].str = <<"Á", " ", "\t", "B">>
  /\ calls[1].result = <<"a", " ", "b">>

\* C28 as stated: stringSimilarity(a, b) lies in [0, 1], is 1 when the
\* normalized forms of a and b are equal, and is 0 whenever the normalized form
\* of either input is empty.
C28_SimilarityZeroOnEmpty ==
  calls[1].op = "stringSimilarity" =>
    /\ calls[1].result.den > 0
    /\ 0 <= calls[1].result.num
    /\ calls[1].result.num <= calls[1].result.den
    /\ normalizeString(calls[1].str1) = normalizeString(calls[1].str2) =>
         calls[1].result.num = calls[1].result.den
    /\ (normalizeString(calls[1].str1) = << >> \/ normalizeString(calls[1].str2) = << >>) =>
         calls[1].result.num = 0

\* C28, amended: stringSimilarity(a, b) lies in [0, 1], is 1 when the
\* normalized forms of a and b are equal (both empty included), and is 0 when
\* the normalized form of exactly one input is empty.
C28_SimilarityRange ==
  calls[1].op = "stringSimilarity" =>
    /\ calls[1].result.den > 0
    /\ 0 <= calls[1].result.num
    /\ calls[1].result.num <= calls[1].result.den
    /\ normalizeString(calls[1].str1) = normalizeString(calls[1].str2) =>
         calls[1].result.num = calls[1].result.den
    /\ (normalizeString(calls[1].str1) = << >>) # (normalizeString(calls[1].str2) = << >>) =>
         calls[1].result.num = 0

\* a string of spaces was compared with a name
C28_ComparedWithBlank ==
  /\ calls[1].op = "stringSimilarity"
  /\ calls[1].str1 = <<" ", "\t">>
  /\ calls[1].str2 = <<"B", "a">>
  /\ calls[1].result.num = 0

\* the similarity of the looked-up name to a stored row
SimilarityTo(call, row) == stringSimilarity(call.name, row.name)

\* C29: findSimilarCustomers returns an empty similar list when the partition
\* has a customer with the normalized name looked up; otherwise the list holds
\* only customers of the partition with similarity > 0.8, each once, in
\* non-increasing order of similarity, at most 3 of them, and no customer of
\* the partition outside the list is more similar than one in it.
C29_SimilarListIsTopThree ==
  calls[1].op = "findSimilarCustomers" =>
    /\ HasExactMatch(customers, calls[1].phoneNumber, calls[1].name) =>
         calls[1].similar = << >>
    /\ ~HasExactMatch(customers, calls[1].phoneNumber, calls[1].name) =>
         /\ Len(calls[1].similar) <= 3
         /\ \A i \in 1..Len(calls[1].similar) :
              /\ calls[1].similar[i] \in customers
              /\ calls[1].similar[i].phoneNumber = calls[1].phoneNumber
              /\ 10 * SimilarityTo(calls[1], calls[1].similar[i]).num
                   > 8 * SimilarityTo(calls[1], calls[1].similar[i]).den
              /\ \A j \in 1..Len(calls[1].similar) :
                   /\ i < j => ~SimGreater(SimilarityTo(calls[1], calls[1].similar[j]),
                                           SimilarityTo(calls[1], calls[1].similar[i]))
                   /\ i # j => calls[1].similar[i] # calls[1].similar[j]
              /\ \A x \in PartitionCustomers(customers, calls[1].phoneNumber) :
                   (\A j \in 1..Len(calls[1].similar) : x # calls[1].similar[j]) =>
                     ~SimGreater(SimilarityTo(calls[1], x),
                                 SimilarityTo(calls[1], calls[1].similar[i]))

\* of four similar customers three were returned, the most similar first and a
\* less similar one last
C29_ThreeOfFourReturned ==
  /\ calls[1].op = "findSimilarCustomers"
  /\ Len(calls[1].similar) = 3
  /\ Cardinality(Candidates(customers, calls[1].phoneNumber, calls[1].name)) = 4
  /\ SimGreater(SimilarityTo(calls[1], calls[1].similar[1]),
                SimilarityTo(calls[1], calls[1].similar[3]))

\* the sale number an UPDATE_SALE or DELETE_SALE turn is about, per the claim
ClaimedTarget(entities, ctx) ==
  IF entities.saleNumber # NoNum THEN entities.saleNumber ELSE ctx.lastSaleNumber

\* C30: after a confirmed creation that succeeded, lastSaleNumber is the number
\* of the sale just created and lastCustomerName is the display name of the
\* customer the sale was stored for; an UPDATE_SALE or DELETE_SALE turn is
\* about the number its intent carries and, when it carries none, about
\* lastSaleNumber: that is the number it stages for confirmation, the number
\* it looks up, and the turn asks which sale only when both are absent.
C30_LastSaleIsRemembered ==
  [][/\ (last'.routed /\ last'.reply = "sale_created") =>
          /\ Cardinality(sales' \ sales) = 1
          /\ \A s \in sales' \ sales :
               /\ cache'[last'.phoneNumber].lastSaleNumber = s.saleNumber
               /\ \E x \in customers' :
                    /\ x.id = s.customerId
                    /\ cache'[last'.phoneNumber].lastCustomerName = x.name
     /\ (last'.routed /\ last'.action \in {"UPDATE_SALE", "DELETE_SALE"}) =>
          /\ last'.reply \in {"confirm_update", "confirm_delete"} =>
               /\ cache'[last'.phoneNumber].pendingAction.data.saleNumber =
                    ClaimedTarget(last'.entities, RoutedContext(last'.phoneNumber))
               /\ getSaleByNumber(sales, last'.phoneNumber,
                                  ClaimedTarget(last'.entities,
                                                RoutedContext(last'.phoneNumber))) # {}
          /\ last'.reply = "sale_not_found" =>
               getSaleByNumber(sales, last'.phoneNumber,
                               ClaimedTarget(last'.entities,
                                             RoutedContext(last'.phoneNumber))) = {}
          /\ last'.reply = "which_sale" <=>
               ClaimedTarget(last'.entities, RoutedContext(last'.phoneNumber)) = NoNum]_vars

\* with sale 2 and its customer remembered, a deletion that names sale 1
\* staged sale 1
C30_NamedSaleOverRemembered ==
  /\ last.routed
  /\ last.action = "DELETE_SALE"
  /\ last.reply = "confirm_delete"
  /\ last.entities.saleNumber = 1
  /\ cache[last.phoneNumber].lastSaleNumber = 2
  /\ cache[last.phoneNumber].pendingAction.data.saleNumber = 1
  /\ \E s \in sales : s.saleNumber = 2 /\ s.phoneNumber = last.phoneNumber
  /\ \E x \in customers : x.name = cache[last.phoneNumber].lastCustomerName

\* C31: when the transaction of a createSale call fails (the insert is
\* rejected or the store throws), the step writes no sale and changes no
\* existing sale, the customer the call resolved or created stays in the
\* store, and the failed call has stored no sale and does nothing afterwards.
C31_FailedInsertLeavesCustomer ==
  [][\A c \in Calls :
       /\ (calls[c].pc \in {"findFirst", "insert"} /\ calls'[c].pc = "failed") =>
            /\ sales' = sales
            /\ customers' = customers
            /\ \E x \in customers' :
                 /\ x.id = calls[c].customerId
                 /\ x.phoneNumber = calls[c].phoneNumber
                 /\ x.nameNormalized = normalizeString(calls[c].data.customerName)
            /\ calls'[c].saleNumber = NoNum
       /\ (calls[c].op = "create" /\ calls[c].pc = "failed") => calls'[c] = calls[c]]_vars

\* the only call made so far created its customer and then lost its insert:
\* the customer is stored and has no sale
C31_CustomerWithoutSale ==
  \E c \in Calls :
    /\ calls[c].op = "create"
    /\ calls[c].pc = "failed"
    /\ calls[c].err = "STORE"
    /\ calls[c].attempts = 1
    /\ \A d \in Calls \ {c} : calls[d].pc = "idle"
    /\ sales = {}
    /\ \E x \in customers : x.id = calls[c].customerId

\* C32: parsePortugueseDate on a weekday name returns the start of a day d
\* with that weekday, at least one and at most seven days before today, so
\* never today and never a later day, whatever the current weekday.
C32_WeekdayIsLastOccurrence ==
  calls[1].op = "parsePortugueseDate" =>
    /\ calls[1].result % 1440 = 0
    /\ ((calls[1].result \div 1440) + 4) % 7 = calls[1].dayNum
    /\ (calls[1].at \div 1440) - (calls[1].result \div 1440) >= 1
    /\ (calls[1].at \div 1440) - (calls[1].result \div 1440) <= 7
    /\ calls[1].result < calls[1].at

\* the name of the current weekday was parsed: the answer is a week back
C32_SameWeekdayAsToday ==
  /\ calls[1].op = "parsePortugueseDate"
  /\ calls[1].input = "terça"
  /\ ((calls[1].at \div 1440) + 4) % 7 = 2
  /\ (calls[1].at \div 1440) - (calls[1].result \div 1440) = 7

\* keyword stands in name as a word: between spaces or the ends of the name
ContainsWord(name, keyword) ==
  \E i \in 0..(Len(name) - Len(keyword)) :
    /\ SubSeq(name, i + 1, i + Len(keyword)) = keyword
    /\ i = 0 \/ name[i] = " "
    /\ i + Len(keyword) = Len(name) \/ name[i + Len(keyword) + 1] = " "

\* C33: when the confirmation of a CREATE_SALE draft creates a customer, the
\* customer's type is the draft's when the draft carries one; when it carries
\* none, the type is BUSINESS exactly when the lower-cased name contains one of
\* the business keywords as a word, and PERSON otherwise.
C33_TypeFollowsKeywordWords ==
  [][(last'.routed /\ last'.reply = "sale_created") =>
       \A x \in customers' \ customers :
         IF RoutedContext(last'.phoneNumber).pendingAction.data.customerType # ""
         THEN x.type = RoutedContext(last'.phoneNumber).pendingAction.data.customerType
         ELSE x.type = "BUSINESS" <=>
                \E keyword \in businessKeywords :
                  ContainsWord(toLowerCase(x.name), keyword)]_vars

\* C34: a confirmation turn changes the ledger only from an action that is still
\* staged for confirmation when the ledger call returns: once one of two
\* confirmations in flight together has committed the draft or the deletion,
\* the other creates or removes nothing
C34_CommitOnlyWhileStaged ==
  [][\A c \in ConfirmCalls :
       (calls[c].pc \in {"createSale", "deleteSale"} /\ calls'[c].pc = "save"
        /\ sales' # sales)
       => /\ cache[BusyPartition].pendingConfirmation
          /\ cache[BusyPartition].pendingAction.type =
               (IF calls[c].pc = "createSale" THEN "CREATE_SALE" ELSE "DELETE_SALE")]_vars

\* C34 (deletion): a confirmation turn removes a sale only while the deletion
\* is still staged
C34_DeleteOnlyWhileStaged ==
  [][\A c \in ConfirmCalls :
       (calls[c].pc = "deleteSale" /\ calls'[c].pc = "save" /\ sales' # sales)
       => /\ cache[BusyPartition].pendingConfirmation
          /\ cache[BusyPartition].pendingAction.type = "DELETE_SALE"]_vars

\* two confirmations of one staged deletion have both returned: one removed the
\* sale, the other failed
C34_DeletedOnce ==
  /\ calls[1].pc \in {"save", "done"} /\ calls[1].reply = "sale_deleted"
  /\ calls[2].pc \in {"save", "done"} /\ calls[2].reply = "confirm_error"
  /\ calls[1].saleNumber = calls[2].saleNumber

\* C35: after a turn that changed the ledger the persisted session of the
\* partition equals the cached one, and it is not awaiting a confirmation
C35_CommittedNotLeftPending ==
  [][\A phoneNumber \in DialoguePartitions :
       (last'.phoneNumber = phoneNumber /\ sales' # sales)
       => /\ phoneNumber \in DOMAIN db' /\ phoneNumber \in DOMAIN cache'
          /\ db'[phoneNumber] = PersistedRow(cache'[phoneNumber])
          /\ ~db'[phoneNumber].pendingConfirmation]_vars

\* the turn that ends in the primed state was a CONFIRM_ACTION on a session
\* awaiting confirmation, and the commit it attempted failed
FailedConfirmTurn(phoneNumber) ==
  /\ last'.phoneNumber = phoneNumber
  /\ last'.action = "CONFIRM_ACTION"
  /\ last'.pendingConfirmation
  /\ last'.pendingType \in {"CREATE_SALE", "DELETE_SALE"}
  /\ last'.reply = "confirm_error"

\* C36 as stated: a CONFIRM_ACTION turn whose commit fails leaves the pending
\* action's kind and draft data, pendingConfirmation and pendingExpiresAt as
\* they were before the turn, and the sales unchanged
C36_FailedConfirmKeepsPending ==
  [][\A phoneNumber \in DialoguePartitions :
       FailedConfirmTurn(phoneNumber)
       => /\ PendingFields(cache'[phoneNumber]) = PendingFields(RoutedContext(phoneNumber))
          /\ sales' = sales]_vars

\* the staged payload after confirmCreate has written its defaults into it
DraftAfterConfirm(pendingAction) ==
  IF pendingAction.type = "CREATE_SALE"
  THEN [pendingAction EXCEPT !.data = FillDefaults(pendingAction.data)]
  ELSE pendingAction

\* C36 amended: a CONFIRM_ACTION turn whose commit fails leaves the pending
\* action's kind, pendingConfirmation and pendingExpiresAt as they were and the
\* sales unchanged; the draft of a creation keeps every field it had and has
\* the defaults of confirmCreate (saleDate, quantity, customerType) filled in
C36_FailedConfirmKeepsPendingFilled ==
  [][\A phoneNumber \in DialoguePartitions :
       FailedConfirmTurn(phoneNumber)
       => /\ cache'[phoneNumber].pendingAction =
               DraftAfterConfirm(RoutedContext(phoneNumber).pendingAction)
          /\ cache'[phoneNumber].pendingConfirmation
          /\ cache'[phoneNumber].pendingExpiresAt =
               RoutedContext(phoneNumber).pendingExpiresAt
          /\ sales' = sales]_vars

\* a confirmation of a staged creation has just failed and the draft is still
\* awaiting confirmation
C36_CreateFailedStillPending ==
  /\ last.action = "CONFIRM_ACTION" /\ last.reply = "confirm_error"
  /\ last.pendingType = "CREATE_SALE"
  /\ last.phoneNumber \in DOMAIN cache
  /\ cache[last.phoneNumber].pendingConfirmation
  /\ cache[last.phoneNumber].pendingAction.data.quantity = 1

\* C37: a CONFIRM_ACTION turn creates a sale only from a draft that was staged
\* for confirmation (here the complete drafts, of product "kit") and removes
\* only the sale of a staged deletion
C37_ConfirmAppliesStagedOnly ==
  [][(last'.action = "CONFIRM_ACTION" /\ sales' # sales) =>
       /\ \A s \in sales' \ sales :
            /\ RoutedContext(BusyPartition).pendingAction.type = "CREATE_SALE"
            /\ s.product = "kit"
       /\ \A s \in sales \ sales' :
            /\ RoutedContext(BusyPartition).pendingAction.type = "DELETE_SALE"
            /\ s.saleNumber = RoutedContext(BusyPartition).pendingAction.data.saleNumber]_vars

\* C37 (the slot): a turn that stages an action for confirmation replaces the
\* one that was pending, and a CONFIRM_ACTION turn creates or removes only
\* what the pending action of its session names
C37_ConfirmAppliesPendingSlot ==
  [][/\ (last'.reply \in {"confirm_create", "confirm_update", "confirm_delete"}) =>
          /\ cache'[BusyPartition].pendingAction.type = last'.action
          /\ cache'[BusyPartition].pendingConfirmation
          /\ last'.action = "CREATE_SALE" =>
                cache'[BusyPartition].pendingAction.data.product = last'.entities.product
          /\ last'.action # "CREATE_SALE" =>
                cache'[BusyPartition].pendingAction.data.saleNumber = last'.entities.saleNumber
     /\ (last'.action = "CONFIRM_ACTION" /\ sales' # sales) =>
          /\ \A s \in sales' \ sales :
               /\ RoutedContext(BusyPartition).pendingAction.type = "CREATE_SALE"
               /\ s.product = RoutedContext(BusyPartition).pendingAction.data.product
          /\ \A s \in sales \ sales' :
               /\ RoutedContext(BusyPartition).pendingAction.type = "DELETE_SALE"
               /\ s.saleNumber =
                    RoutedContext(BusyPartition).pendingAction.data.saleNumber]_vars

\* C38: the lastSaleNumber a session holds is the number of a sale in the
\* ledger of its partition
C38_LastSaleExists ==
  \A phoneNumber \in DOMAIN cache :
    Truthy(cache[phoneNumber].lastSaleNumber) =>
      getSaleByNumber(sales, phoneNumber, cache[phoneNumber].lastSaleNumber) # {}

\* C39: a turn whose message is a simple greeting is answered without the
\* oracle and the plugin and leaves the sales and the customers as they were;
\* pending fields that have not expired stay as they were and nothing is
\* written to the store, expired ones are cleared in the cache and in the store
C39_GreetingLeavesPending ==
  [][\A phoneNumber \in DialoguePartitions :
       (last'.phoneNumber = phoneNumber /\ last'.action = "GREETING")
       => /\ ~last'.routed
          /\ last'.reply = "greeting"
          /\ sales' = sales /\ customers' = customers /\ issued' = issued
          /\ IF IsExpired(getContext(phoneNumber), now)
             THEN /\ PendingCleared(cache'[phoneNumber])
                  /\ phoneNumber \in DOMAIN db'
                  /\ PendingCleared(db'[phoneNumber])
             ELSE /\ PendingFields(cache'[phoneNumber]) =
                       PendingFields(getContext(phoneNumber))
                  /\ db' = db]_vars

\* a greeting has just been answered while an action awaits its confirmation
C39_GreetedWhilePending ==
  /\ last.action = "GREETING" /\ ~last.expired
  /\ last.phoneNumber \in DOMAIN cache
  /\ cache[last.phoneNumber].pendingConfirmation
  /\ cache[last.phoneNumber].pendingExpiresAt >= now

\* a greeting has just been answered and the expired action is gone from the
\* cache and from the store
C39_GreetedAfterExpiry ==
  /\ last.action = "GREETING" /\ last.expired
  /\ last.phoneNumber \in DOMAIN db
  /\ PendingCleared(db[last.phoneNumber])
====
